---- MODULE Spec2Model ----
(***************************************************************************)
(* Crypto arbitrage detector: exchange connectors (price-poller), the      *)
(* prices table they write (database.ts) and the REST reads over it        *)
(* (api server).                                                            *)
(*                                                                         *)
(* SpecConn  : one exchange connector and its WebSocket transport.         *)
(* SpecStore : insertPrice writes, the clock and the freshness reads.      *)
(* SpecMatch : the opportunities query over bounded table contents.        *)
(* SpecExpiry: the opportunities query as the quotes age.                  *)
(* SpecBook  : the opportunities query over many trading pairs.            *)
(* SpecIngest: a connector's message handlers and the writes they start.   *)
(* SpecSymbols: a connector receiving tickers of its configured symbols.   *)
(* SpecSvc   : PricePollerService.start().                                 *)
(* SpecLife  : the process from start() to its exit, with stop() and the   *)
(*             cleanup interval.                                            *)
(* SpecRead  : the opportunities read and its error answer.                *)
(* SpecQuote : tickers with zero, unparseable and tiny asks, then the read.*)
(* SpecDemo  : the INSERT of demo_arbitrage.sh beside connector writes.    *)
(* SpecPurge : cleanOldPrices() around the 24 hour horizon.                *)
(* SpecDetect: the Drasi continuous query over bounded table contents.     *)
(* SpecActive: the two reads with exchanges and pairs switched off.        *)
(* SpecBatch : batchInsertPrices, its transaction and its client.          *)
(* SpecOrder : two tickers of one symbol handled concurrently.             *)
(***************************************************************************)
EXTENDS Integers, Sequences, FiniteSets, Bags, TLC

VARIABLES
    \* ---- connector (connectors/binance.ts, coinbase, kraken.ts) ----
    kind,              \* which connector class this instance is
    ws,                \* this.ws: 0 (null) or the id of a socket
    sock,              \* the WebSocket objects created by connect()
    reconnectTimeout,  \* this.reconnectTimeout: 0 (null) or a timer handle
    timers,            \* the timers created by setTimeout
    pingInterval,      \* this.pingInterval is set (Binance only)
    pings,             \* number of live setInterval ping timers
    started,           \* the supervisor has called connect()
    stopped,           \* history: disconnect() has been called
    stoppedTimer,      \* history: state of the timer a disconnect() cleared
    stoppedInFlight,   \* history: disconnect() found a CONNECTING transport
    lastEvent,         \* history: the last connector method or handler run
    attempts,          \* history: number of connect() calls, saturating
    \* ---- PostgreSQL (schema.sql), written by database.ts ----
    now,               \* the database clock NOW(), in seconds
    ticks,             \* number of clock steps taken
    uniqueIdx,         \* prices has a unique index on (exchange, pair, timestamp)
    exActive,          \* exchanges.is_active, by exchange id
    tpActive,          \* trading_pairs.is_active, by trading pair id
    prices,            \* the rows of the prices table
    nextId,            \* next value of the prices.id sequence
    calls,             \* the bag of insertPrice calls in progress
    lastExecuted,      \* history: per key, the write the database ran last
    lastCompleted,     \* history: per key, the write whose call returned last
    overlapped,        \* history: per key, two writes were in progress at once
    batch,             \* the batchInsertPrices call: its client and transaction
    \* ---- api server (GET /api/arbitrage/opportunities) ----
    minProfit,         \* the threshold $1 of the query, in tenths of a percent
    response,          \* the last response of the opportunities read
    detected,          \* the last result of the Drasi continuous query
    latest,            \* the last response of the latest-prices read
    \* ---- price-poller process (index.ts) and message handlers ----
    refEx,             \* ids of the rows of the exchanges table
    refTp,             \* ids of the rows of the trading_pairs table
    pc,                \* where PricePollerService.start() stands
    exitCause,         \* history: what made the process exit
    exchangeId,        \* this.exchangeId of each connector, 0 for null
    linked,            \* history: start() has called connect() on the connector
    lookups,           \* the bag of getTradingPairId awaits of ticker handlers
    msgs,              \* number of messages delivered
    trace,             \* history: the outcomes of the message handlers
    cleanupInterval,   \* this.cleanupInterval: "null", or the timer "live"/"cleared"
    purging,           \* a db.cleanOldPrices() of the interval callback is awaited
    cleaned,           \* the rowCount the last cleanOldPrices() logged
    stopping           \* stop() has been called and awaits db.close()

connVars == <<kind, ws, sock, reconnectTimeout, timers, pingInterval, pings,
              started, stopped, stoppedTimer, stoppedInFlight, lastEvent,
              attempts>>

storeVars == <<now, ticks, uniqueIdx, exActive, tpActive, prices, nextId,
               calls, lastExecuted, lastCompleted, overlapped, batch>>

apiVars == <<minProfit, response, detected, latest>>

lifeVars == <<cleanupInterval, purging, cleaned, stopping>>

svcVars == <<refEx, refTp, pc, exitCause, exchangeId, linked, lookups, msgs,
             trace, cleanupInterval, purging, cleaned, stopping>>

vars == <<kind, ws, sock, reconnectTimeout, timers, pingInterval, pings,
          started, stopped, stoppedTimer, stoppedInFlight, lastEvent,
          attempts, now, ticks, uniqueIdx, exActive, tpActive, prices, nextId,
          calls, lastExecuted, lastCompleted, overlapped, batch, minProfit, response,
          detected, latest, refEx, refTp, pc, exitCause, exchangeId, linked, lookups, msgs,
          trace, cleanupInterval, purging, cleaned, stopping>>

-----------------------------------------------------------------------------
(* Bounds *)

MaxSockets == 2
MaxTimers == 2
AttemptsCap == 3

-----------------------------------------------------------------------------
(* Reference data and the prices table (schema.sql) *)

MaxTicks == 2
MaxWrites == 2
MaxCalls == 2

\* SQL NULL, and the NaN that parseFloat yields on an unparseable field.
NULL == -1
NaN == -2

\* A positive number below 0.000000005, such as parseFloat("0.000000001").
Tiny == -3

\* exchanges.id of the seed rows: Binance 1, Coinbase 2, Kraken 3.
Exchanges == 1..3

\* trading_pairs.id of the seed rows: BTC_USDT 1, ETH_USDT 2, BTC_USD 3,
\* ETH_USD 4.
TradingPairs == 1..4

\* exchanges.trading_fee of the seed rows, in units of 1/FeeScale.
FeeScale == 10000
TradingFee == <<10, 50, 26>>

\* The intervals of the two reads, in seconds, and the LIMIT of the second.
LatestWindow == 30
MatchWindow == 120
ResultLimit == 50

\* minProfit is counted in units of 1/ThresholdScale percent; the default is
\* 0.1.
ThresholdScale == 10
DefaultMinProfit == 1

Keys == Exchanges \X TradingPairs

KeyOf(r) == <<r.ex, r.tp>>

\* The keys written here: BTC-USD of Coinbase and XBT/USD of Kraken, which
\* both resolve to BTC_USD.
WriteKeys == {<<2, 3>>, <<3, 3>>}

\* What the connectors parse out of two ticker messages: price, bid, ask.
TickInputs == {[price |-> 100, bid |-> 99, ask |-> 101],
               [price |-> 102, bid |-> 0, ask |-> NaN]}

\* The clock steps taken between two events, in seconds.
TickSteps == {30, 90}

NoWrite == [id |-> 0, price |-> NULL, bid |-> NULL, ask |-> NULL]

\* No batchInsertPrices call has been made.  items is the argument, todo
\* the entries not yet sent, work the table as the open transaction sees it,
\* at its NOW(), base the table when the call was made; acquired, released
\* and queries count pool.connect(), client.release() and client.query().
NoBatch == [pc |-> "idle", items |-> <<>>, todo |-> <<>>, work |-> {}, at |-> 0,
            base |-> {}, acquired |-> 0, released |-> 0, queries |-> 0,
            failed |-> FALSE, result |-> "none"]

\* JavaScript's x || null on a number: 0 and NaN become null.
OrNull(x) == IF x = 0 \/ x = NaN THEN NULL ELSE x

\* The value a DECIMAL(20, 8) column stores: the number rounded to eight
\* decimal places.
Decimal8(x) == IF x = Tiny THEN 0 ELSE x

\* ON CONFLICT ... DO NOTHING in place of DO UPDATE.
UpsertKeepFirst(rows, id, e, tp, p, b, a, t) ==
    IF \E r \in rows : r.ex = e /\ r.tp = tp /\ r.ts = t
    THEN rows
    ELSE rows \cup {[id |-> id, ex |-> e, tp |-> tp, price |-> p,
                     bid |-> b, ask |-> a, ts |-> t]}

\* INSERT ... ON CONFLICT (exchange_id, trading_pair_id, timestamp) DO UPDATE
\* on a table that has the unique index.
Upsert(rows, id, e, tp, p, b, a, t) ==
    IF \E r \in rows : r.ex = e /\ r.tp = tp /\ r.ts = t
    THEN {IF r.ex = e /\ r.tp = tp /\ r.ts = t
          THEN [r EXCEPT !.price = p, !.bid = b, !.ask = a] ELSE r : r \in rows}
    ELSE rows \cup {[id |-> id, ex |-> e, tp |-> tp, price |-> p,
                     bid |-> b, ask |-> a, ts |-> t]}

\* RETURNING id: the id of the row the statement wrote.
WrittenId(rows, id, e, tp, t) ==
    IF \E r \in rows : r.ex = e /\ r.tp = tp /\ r.ts = t
    THEN (CHOOSE r \in rows : r.ex = e /\ r.tp = tp /\ r.ts = t).id
    ELSE id

\* A freshness test that keeps a row of age exactly w.
FreshRowsInclusive(rows, t, w) == {r \in rows : r.ts >= t - w}

\* WHERE timestamp > NOW() - INTERVAL w
FreshRows(rows, t, w) == {r \in rows : r.ts > t - w}

\* ORDER BY ... timestamp ASC in place of DESC.
Oldest(rows, k) ==
    {r \in rows : KeyOf(r) = k /\ \A q \in rows : KeyOf(q) = k => r.ts <= q.ts}

\* The rows DISTINCT ON (exchange_id, trading_pair_id) ... ORDER BY
\* exchange_id, trading_pair_id, timestamp DESC may keep for key k.
Newest(rows, k) ==
    {r \in rows : KeyOf(r) = k /\ \A q \in rows : KeyOf(q) = k => q.ts <= r.ts}

\* The possible results of the DISTINCT ON subquery over rows: one row of
\* each key, any of the newest when several share the timestamp.
RECURSIVE PickNewest(_, _)
PickNewest(ks, rows) ==
    IF ks = {} THEN {{}}
    ELSE LET k == CHOOSE x \in ks : TRUE
         IN {P \cup {r} : P \in PickNewest(ks \ {k}, rows), r \in Newest(rows, k)}

DistinctOnLatest(rows) ==
    LET only == {r \in rows : Newest(rows, KeyOf(r)) = {r}}
        tied == {KeyOf(r) : r \in {x \in rows : x \in Newest(rows, KeyOf(x))} \ only}
    IN {only \cup P : P \in PickNewest(tied, rows)}

\* A latest-prices query without its two is_active conditions.
LatestPricesAnyFlag(rows, t) ==
    {{r \in rows : r.id \in {q.id : q \in sub}}
       : sub \in DistinctOnLatest(FreshRows(rows, t, LatestWindow))}

\* GET /api/prices/latest: the possible result sets (ORDER BY tp.symbol,
\* e.name orders the rows and selects none).
LatestPrices(rows, t) ==
    {{r \in rows : /\ exActive[r.ex]
                   /\ tpActive[r.tp]
                   /\ r.id \in {q.id : q \in sub}}
       : sub \in DistinctOnLatest(FreshRows(rows, t, LatestWindow))}

\* The rows the opportunities query joins: fresh, and kept by its DISTINCT ON
\* subquery sub.
MatchInput(rows, t, sub) ==
    {r \in FreshRows(rows, t, MatchWindow) : r.id \in {q.id : q \in sub}}

StoreEmpty ==
    /\ now = 0
    /\ ticks = 0
    /\ exActive = [e \in Exchanges |-> TRUE]
    /\ tpActive = [p \in TradingPairs |-> TRUE]
    /\ prices = {}
    /\ nextId = 1
    /\ calls = EmptyBag
    /\ lastExecuted = [k \in Keys |-> NoWrite]
    /\ lastCompleted = [k \in Keys |-> NoWrite]
    /\ overlapped = [k \in Keys |-> FALSE]
    /\ batch = NoBatch

ApiIdle ==
    /\ minProfit = DefaultMinProfit
    /\ response = [served |-> FALSE, status |-> 0, count |-> 0, rows |-> <<>>,
                   timestamp |-> 0]
    /\ detected = [run |-> FALSE, rows |-> {}]
    /\ latest = [served |-> FALSE, rows |-> {}]

\* No cleanup interval set, no purge run, no stop requested.
LifeIdle ==
    /\ cleanupInterval = "null"
    /\ purging = FALSE
    /\ cleaned = NULL
    /\ stopping = FALSE

\* The process before start(): the seed reference data, no lookup made.
SvcIdle ==
    /\ refEx = Exchanges
    /\ refTp = TradingPairs
    /\ pc = "boot"
    /\ exitCause = "none"
    /\ exchangeId = [k \in {"binance", "coinbase", "kraken"} |-> 0]
    /\ linked = [k \in {"binance", "coinbase", "kraken"} |-> FALSE]
    /\ lookups = EmptyBag
    /\ msgs = 0
    /\ trace = <<>>
    /\ LifeIdle

ConnIdle ==
    /\ kind = "kraken"
    /\ ws = 0
    /\ sock = [s \in 1..MaxSockets |-> [rs |-> "FREE", errEv |-> FALSE,
                 closeEv |-> FALSE, aborted |-> FALSE, subscribed |-> FALSE,
                 after |-> 0]]
    /\ reconnectTimeout = 0
    /\ timers = [t \in 1..MaxTimers |-> [st |-> "free", delay |-> 0]]
    /\ pingInterval = FALSE
    /\ pings = 0
    /\ started = FALSE
    /\ stopped = FALSE
    /\ stoppedTimer = "none"
    /\ stoppedInFlight = FALSE
    /\ lastEvent = "init"
    /\ attempts = 0

InitStore ==
    /\ ConnIdle
    /\ ApiIdle
    /\ SvcIdle
    /\ StoreEmpty
    /\ uniqueIdx \in BOOLEAN

InFlight(k) == {c \in BagToSet(calls) : <<c.ex, c.tp>> = k}

\* insertPrice(data) is called by connector e for trading pair tp with the
\* parsed tick k: the values are built and the statement is sent.
InsertPriceStep(e, tp, k) ==
    /\ BagCardinality(calls) < MaxCalls
    /\ (nextId - 1) + BagCardinality(calls) < MaxWrites
    /\ calls' = calls (+) SetToBag({[st |-> "sent", ex |-> e, tp |-> tp, id |-> 0,
                                     price |-> k.price, bid |-> OrNull(k.bid),
                                     ask |-> OrNull(k.ask)]})
    /\ overlapped' = [overlapped EXCEPT ![<<e, tp>>] = @ \/ InFlight(<<e, tp>>) # {}]
    /\ UNCHANGED <<batch, now, ticks, uniqueIdx, exActive, tpActive, prices, nextId,
                   lastExecuted, lastCompleted>>

InsertPrice(e, tp, k) == UNCHANGED <<connVars, apiVars, svcVars>> /\ InsertPriceStep(e, tp, k)

\* The database runs the statement of call c.  NOW() is the start time of
\* its transaction.  Without a unique index on the ON CONFLICT columns the
\* statement is rejected: query() rethrows and handleTickerUpdate logs.
DbExecuteStep(c) ==
    /\ BagIn(c, calls)
    /\ c.st = "sent"
    /\ IF uniqueIdx
       THEN /\ prices' = Upsert(prices, nextId, c.ex, c.tp, Decimal8(c.price),
                                Decimal8(c.bid), Decimal8(c.ask), now)
            /\ nextId' = nextId + 1
            /\ calls' = (calls (-) SetToBag({c})) (+)
                          SetToBag({[c EXCEPT !.st = "ok",
                                       !.id = WrittenId(prices, nextId, c.ex, c.tp, now)]})
            /\ lastExecuted' = [lastExecuted EXCEPT ![<<c.ex, c.tp>>] =
                   [id |-> WrittenId(prices, nextId, c.ex, c.tp, now),
                    price |-> c.price, bid |-> c.bid, ask |-> c.ask]]
       ELSE /\ calls' = calls (-) SetToBag({c})
            /\ UNCHANGED <<prices, nextId, lastExecuted>>
    /\ UNCHANGED <<batch, now, ticks, uniqueIdx, exActive, tpActive, lastCompleted,
                   overlapped>>

DbExecute(c) == UNCHANGED <<connVars, apiVars, svcVars>> /\ DbExecuteStep(c)

\* pool.query rejects for call c (no connection, timeout): nothing is
\* written, query() rethrows and handleTickerUpdate logs.
DbErrorStep(c) ==
    /\ BagIn(c, calls)
    /\ c.st = "sent"
    /\ calls' = calls (-) SetToBag({c})
    /\ UNCHANGED <<batch, now, ticks, uniqueIdx, exActive, tpActive, prices, nextId,
                   lastExecuted, lastCompleted, overlapped>>

DbError(c) == UNCHANGED <<connVars, apiVars, svcVars>> /\ DbErrorStep(c)

\* The await of the executed call c resumes: insertPrice returns the result.
InsertReturnStep(c) ==
    /\ BagIn(c, calls)
    /\ c.st = "ok"
    /\ lastCompleted' = [lastCompleted EXCEPT ![<<c.ex, c.tp>>] =
                           [id |-> c.id, price |-> c.price, bid |-> c.bid,
                            ask |-> c.ask]]
    /\ calls' = calls (-) SetToBag({c})
    /\ UNCHANGED <<batch, now, ticks, uniqueIdx, exActive, tpActive, prices, nextId,
                   lastExecuted, overlapped>>

InsertReturn(c) == UNCHANGED <<connVars, apiVars, svcVars>> /\ InsertReturnStep(c)

\* Time passes.
Tick(d) ==
    /\ UNCHANGED <<connVars, apiVars, svcVars>>
    /\ ticks < MaxTicks
    /\ ticks' = ticks + 1
    /\ now' = now + d
    /\ UNCHANGED <<batch, uniqueIdx, exActive, tpActive, prices, nextId, calls,
                   lastExecuted, lastCompleted, overlapped>>

NextStore ==
    \/ \E wk \in WriteKeys : \E k \in TickInputs : InsertPrice(wk[1], wk[2], k)
    \/ \E c \in BagToSet(calls) : DbExecute(c)
    \/ \E c \in BagToSet(calls) : DbError(c)
    \/ \E c \in BagToSet(calls) : InsertReturn(c)
    \/ \E d \in TickSteps : Tick(d)

SpecStore == InitStore /\ [][NextStore]_vars

\* The rows demo_arbitrage.sh injects: Binance and Coinbase quotes of BTC_USD.
DemoRows == {[ex |-> 1, tp |-> 3, price |-> 67000, bid |-> 66999, ask |-> 67001],
             [ex |-> 2, tp |-> 3, price |-> 68500, bid |-> 68499, ask |-> 68501]}

MaxRows == 4

\* The INSERT of demo_arbitrage.sh, a statement without ON CONFLICT, with
\* timestamp NOW(): on a table with the unique index a collision aborts the
\* statement and nothing is written (the id sequence keeps what it handed
\* out); otherwise both rows are added.
DemoInject ==
    /\ UNCHANGED <<connVars, apiVars, svcVars>>
    /\ nextId + 1 <= MaxRows
    /\ IF uniqueIdx /\ \E r \in prices, d \in DemoRows :
                          r.ex = d.ex /\ r.tp = d.tp /\ r.ts = now
       THEN /\ nextId' = nextId + (IF \E r \in prices : r.ex = 1 /\ r.tp = 3 /\ r.ts = now
                                   THEN 1 ELSE 2)
            /\ UNCHANGED prices
       ELSE /\ prices' = prices \cup
                  {[id |-> nextId + d.ex - 1, ex |-> d.ex, tp |-> d.tp,
                    price |-> d.price, bid |-> d.bid, ask |-> d.ask, ts |-> now]
                     : d \in DemoRows}
            /\ nextId' = nextId + 2
    /\ UNCHANGED <<batch, now, ticks, uniqueIdx, exActive, tpActive, calls,
                   lastExecuted, lastCompleted, overlapped>>

\* Coinbase writes BTC_USD quotes while the demo rows are injected.
NextDemo ==
    \/ \E k \in {t \in TickInputs : t.bid # 0} : InsertPrice(2, 3, k)
    \/ \E c \in BagToSet(calls) : DbExecute(c)
    \/ \E c \in BagToSet(calls) : DbError(c)
    \/ \E c \in BagToSet(calls) : InsertReturn(c)
    \/ DemoInject
    \/ \E d \in TickSteps : Tick(d)

SpecDemo == InitStore /\ [][NextDemo]_vars

-----------------------------------------------------------------------------
(* Database.batchInsertPrices *)

MaxBatch == 2

\* The entries a batch may hold: a Coinbase and a Kraken quote of BTC_USD.
BatchEntries == {[ex |-> 2, tp |-> 3, price |-> 100, bid |-> 99, ask |-> 101],
                 [ex |-> 3, tp |-> 3, price |-> 102, bid |-> 0, ask |-> NaN]}

\* The arrays passed to batchInsertPrices, the empty one included.
Batches == UNION {[1..n -> BatchEntries] : n \in 0..MaxBatch}

\* A catch that leaves what the transaction wrote in place.
RolledBackKept(rows, work) == work

\* The table after ROLLBACK: what the transaction wrote is discarded.
RolledBack(rows, work) == rows

\* The table after COMMIT: what the transaction wrote.
Committed(rows, work) == work

\* catch (error): ROLLBACK has been sent; throw error; finally
\* client.release().
BatchCatch(b) ==
    [b EXCEPT !.pc = "done", !.queries = @ + 1, !.released = @ + 1,
              !.failed = TRUE, !.result = "error"]

\* batchInsertPrices(prices) up to its first await: an empty array returns
\* at once, otherwise a client is asked of the pool.
BatchInsertPrices(items) ==
    /\ UNCHANGED <<connVars, apiVars, svcVars>>
    /\ batch.pc \in {"idle", "done"}
    /\ (nextId - 1) + Len(items) <= MaxRows
    /\ batch' = IF Len(items) = 0
                THEN [NoBatch EXCEPT !.pc = "done", !.base = prices,
                                     !.result = "ok"]
                ELSE [NoBatch EXCEPT !.pc = "connect", !.items = items,
                                     !.todo = items, !.base = prices]
    /\ UNCHANGED <<now, ticks, uniqueIdx, exActive, tpActive, prices, nextId,
                   calls, lastExecuted, lastCompleted, overlapped>>

\* pool.connect() resolves: BEGIN is sent.
GetClientReturn ==
    /\ UNCHANGED <<connVars, apiVars, svcVars>>
    /\ batch.pc = "connect"
    /\ batch' = [batch EXCEPT !.pc = "begin", !.acquired = @ + 1,
                              !.queries = @ + 1]
    /\ UNCHANGED <<now, ticks, uniqueIdx, exActive, tpActive, prices, nextId,
                   calls, lastExecuted, lastCompleted, overlapped>>

\* pool.connect() rejects before the try: the error goes to the caller and
\* there is no client.
GetClientFail ==
    /\ UNCHANGED <<connVars, apiVars, svcVars>>
    /\ batch.pc = "connect"
    /\ batch' = [batch EXCEPT !.pc = "done", !.failed = TRUE,
                              !.result = "error"]
    /\ UNCHANGED <<now, ticks, uniqueIdx, exActive, tpActive, prices, nextId,
                   calls, lastExecuted, lastCompleted, overlapped>>

\* BEGIN returns: the transaction starts, NOW() is fixed, and the first
\* INSERT is sent.
BeginReturn ==
    /\ UNCHANGED <<connVars, apiVars, svcVars>>
    /\ batch.pc = "begin"
    /\ batch' = [batch EXCEPT !.pc = "insert", !.work = prices, !.at = now,
                              !.queries = @ + 1]
    /\ UNCHANGED <<now, ticks, uniqueIdx, exActive, tpActive, prices, nextId,
                   calls, lastExecuted, lastCompleted, overlapped>>

\* The INSERT of the first entry left returns: the next INSERT, or COMMIT, is
\* sent.  Without the unique index the statement is rejected and the catch
\* runs.  The id sequence advances whether or not the transaction commits.
BatchStatementReturn ==
    /\ UNCHANGED <<connVars, apiVars, svcVars>>
    /\ batch.pc = "insert"
    /\ LET e == Head(batch.todo)
       IN IF uniqueIdx
          THEN /\ batch' = [batch EXCEPT
                              !.work = Upsert(batch.work, nextId, e.ex, e.tp,
                                              Decimal8(e.price),
                                              Decimal8(OrNull(e.bid)),
                                              Decimal8(OrNull(e.ask)), batch.at),
                              !.todo = Tail(batch.todo),
                              !.queries = @ + 1,
                              !.pc = IF Len(batch.todo) = 1 THEN "commit"
                                     ELSE "insert"]
               /\ nextId' = nextId + 1
               /\ UNCHANGED prices
          ELSE /\ batch' = BatchCatch(batch)
               /\ prices' = RolledBack(prices, batch.work)
               /\ UNCHANGED nextId
    /\ UNCHANGED <<now, ticks, uniqueIdx, exActive, tpActive, calls,
                   lastExecuted, lastCompleted, overlapped>>

\* BEGIN, an INSERT or COMMIT rejects: the catch sends ROLLBACK, rethrows,
\* and the finally releases the client.
BatchStatementFail ==
    /\ UNCHANGED <<connVars, apiVars, svcVars>>
    /\ batch.pc \in {"begin", "insert", "commit"}
    /\ batch' = BatchCatch(batch)
    /\ prices' = IF batch.pc = "begin" THEN prices
                 ELSE RolledBack(prices, batch.work)
    /\ UNCHANGED <<now, ticks, uniqueIdx, exActive, tpActive, nextId, calls,
                   lastExecuted, lastCompleted, overlapped>>

\* COMMIT returns: the rows are persisted, the count is logged, the finally
\* releases the client and the call returns.
CommitReturn ==
    /\ UNCHANGED <<connVars, apiVars, svcVars>>
    /\ batch.pc = "commit"
    /\ prices' = Committed(prices, batch.work)
    /\ batch' = [batch EXCEPT !.pc = "done", !.released = @ + 1,
                              !.result = "ok"]
    /\ UNCHANGED <<now, ticks, uniqueIdx, exActive, tpActive, nextId, calls,
                   lastExecuted, lastCompleted, overlapped>>

NextBatch ==
    \/ \E items \in Batches : BatchInsertPrices(items)
    \/ GetClientReturn
    \/ GetClientFail
    \/ BeginReturn
    \/ BatchStatementReturn
    \/ BatchStatementFail
    \/ CommitReturn
    \/ \E d \in TickSteps : Tick(d)

SpecBatch == InitStore /\ [][NextBatch]_vars

-----------------------------------------------------------------------------
(* GET /api/arbitrage/opportunities *)

\* The sign of a/b - c/d for b > 0 and d > 0, by comparing the integer parts
\* and then the reciprocals of the fractional parts: exact, as the numeric
\* arithmetic of the query is on the values used here.
RECURSIVE FracCmp(_, _, _, _)
FracCmp(a, b, c, d) ==
    LET qa == a \div b
        qc == c \div d
        ra == a % b
        rc == c % d
    IN IF qa < qc THEN -1
       ELSE IF qa > qc THEN 1
       ELSE IF ra = 0 /\ rc = 0 THEN 0
       ELSE IF ra = 0 THEN -1
       ELSE IF rc = 0 THEN 1
       ELSE FracCmp(d, rc, b, ra)

\* profit_after_fees of buying at p1.ask and selling at p2.bid, as the
\* fraction ProfitNum / ProfitDen (a percentage):
\* (bid * (1 - sell_fee) - ask * (1 + buy_fee)) / (ask * (1 + buy_fee)) * 100
ProfitNum(p1, p2) ==
    (p2.bid * (FeeScale - TradingFee[p2.ex]) - p1.ask * (FeeScale + TradingFee[p1.ex])) * 100

ProfitDen(p1) == p1.ask * (FeeScale + TradingFee[p1.ex])

\* profit_after_fees > $1, the threshold th counted in 1/ThresholdScale percent.
ProfitAbove(p1, p2, th) ==
    FracCmp(ProfitNum(p1, p2), ProfitDen(p1), th, ThresholdScale) = 1

\* A WHERE clause without its freshness conditions.
QualifiesAnyAge(p1, p2, t, th, sub1, sub2) ==
    /\ p2.tp = p1.tp
    /\ exActive[p1.ex]
    /\ exActive[p2.ex]
    /\ tpActive[p1.tp]
    /\ p1.ex < p2.ex
    /\ p1.ask # NULL
    /\ p2.bid # NULL
    /\ p2.bid > p1.ask
    /\ ProfitAbove(p1, p2, th)

\* The WHERE clause of the query for the joined rows p1 (buy) and p2 (sell);
\* sub1 and sub2 are the results of its two DISTINCT ON subqueries.
Qualifies(p1, p2, t, th, sub1, sub2) ==
    /\ p2.tp = p1.tp
    /\ exActive[p1.ex]
    /\ exActive[p2.ex]
    /\ tpActive[p1.tp]
    /\ p1.ex < p2.ex
    /\ p1.ask # NULL
    /\ p2.bid # NULL
    /\ p2.bid > p1.ask
    /\ p1.ts > t - MatchWindow
    /\ p2.ts > t - MatchWindow
    /\ p1.id \in {q.id : q \in sub1}
    /\ p2.id \in {q.id : q \in sub2}
    /\ ProfitAbove(p1, p2, th)

OpportunityRow(p1, p2) ==
    [trading_pair |-> p1.tp, buy_exchange |-> p1.ex, sell_exchange |-> p2.ex,
     buy_price |-> p1.ask, sell_price |-> p2.bid,
     num |-> ProfitNum(p1, p2), den |-> ProfitDen(p1)]

\* The rows of S that come before row r when ordering by profit_after_fees,
\* descending for dir = 1 and ascending for dir = -1.
Before(S, r, dir) == {x \in S : FracCmp(x.num, x.den, r.num, r.den) * dir > 0}

Peers(S, r) == {x \in S : FracCmp(x.num, x.den, r.num, r.den) = 0}

\* The orderings of S by profit_after_fees along dir; rows of equal profit
\* come in any order.  The rows are split around a median row.
RECURSIVE Ordered(_, _)
Ordered(S, dir) ==
    IF S = {} THEN {<<>>}
    ELSE LET half == Cardinality(S) \div 2
             m == CHOOSE r \in S :
                     /\ Cardinality(Before(S, r, dir)) <= half
                     /\ Cardinality(Before(S, r, dir)) + Cardinality(Peers(S, r)) > half
             eq == Peers(S, m)
             mid == {sq \in [1..Cardinality(eq) -> eq] :
                        \A i, j \in 1..Cardinality(eq) : i # j => sq[i] # sq[j]}
         IN UNION {UNION {{lo \o md \o hi : hi \in Ordered(S \ (Before(S, m, dir) \cup eq), dir)}
                            : md \in mid}
                     : lo \in Ordered(Before(S, m, dir), dir)}

\* ORDER BY profit_after_fees ASC in place of DESC.
SortedAsc(S) == Ordered(S, -1)

\* ORDER BY profit_after_fees DESC: every ordering of the rows S that the
\* sort may produce.
SortedDesc(S) == Ordered(S, 1)

\* LIMIT 50
Limit(sq) == SubSeq(sq, 1, IF Len(sq) < ResultLimit THEN Len(sq) ELSE ResultLimit)

\* The possible result lists of the query at time t with threshold th.
Opportunities(rows, t, th) ==
    UNION {UNION {{Limit(sq) : sq \in SortedDesc(
                     {OpportunityRow(p1, p2) : <<p1, p2>> \in
                        {pp \in rows \X rows :
                            Qualifies(pp[1], pp[2], t, th, sub1, sub2)}})}
                  : sub2 \in DistinctOnLatest(FreshRows(rows, t, MatchWindow))}
           : sub1 \in DistinctOnLatest(FreshRows(rows, t, MatchWindow))}

\* const minProfitPercent = parseFloat(req.query.minProfit) || 0.1
ParseMinProfit(q) == IF q = NaN \/ q = 0 THEN DefaultMinProfit ELSE q

\* The bid/ask a stored quote may carry here, and the time it was written.
QuoteOptions == {[ask |-> 1000, bid |-> 990], [ask |-> 1012, bid |-> 1001],
                 [ask |-> 990, bid |-> 1010], [ask |-> 1005, bid |-> 1000]}

\* The time of the read, and the ages of the stored quotes at that time.
ReadTime == 200
QuoteAges == {0, 60, 120}

\* The minProfit query parameters tried (NaN: absent or not a number), in
\* units of 1/ThresholdScale percent.
MinProfitParams == {NaN, 0, 1, -5, -10}

\* The table holds at most one BTC_USD row per exchange, each with a quote of
\* QuoteOptions written at an age of QuoteAges; the row of exchange e has id e.
QuoteTables ==
    LET choice == [Exchanges -> {<<>>} \cup {<<o, a>> : o \in QuoteOptions, a \in QuoteAges}]
    IN {{[id |-> e, ex |-> e, tp |-> 3, price |-> f[e][1].ask,
          bid |-> f[e][1].bid, ask |-> f[e][1].ask, ts |-> ReadTime - f[e][2]]
            : e \in {x \in Exchanges : f[x] # <<>>}} : f \in choice}

InitMatch ==
    /\ ConnIdle
    /\ ApiIdle
    /\ SvcIdle
    /\ now = ReadTime
    /\ ticks = 0
    /\ uniqueIdx = TRUE
    /\ exActive = [e \in Exchanges |-> TRUE]
    /\ tpActive = [p \in TradingPairs |-> TRUE]
    /\ prices \in QuoteTables
    /\ nextId = 4
    /\ calls = EmptyBag
    /\ lastExecuted = [k \in Keys |-> NoWrite]
    /\ lastCompleted = [k \in Keys |-> NoWrite]
    /\ overlapped = [k \in Keys |-> FALSE]
    /\ batch = NoBatch

\* A handler that answers an empty result with 404 Not Found.
JsonStatusNotFound(rows) == IF rows = <<>> THEN 404 ELSE 200

\* res.json(body): the status is 200 whatever the rows are.
JsonStatus(rows) == 200

\* The query divides by p1.ask * (1.0 + e1.trading_fee) for a joined pair of
\* rows that the other conditions of its WHERE clause let through: with a
\* zero ask PostgreSQL raises division_by_zero and the query fails.
DividesByZero(rows, t) ==
    \E sub1, sub2 \in DistinctOnLatest(FreshRows(rows, t, MatchWindow)) :
        \E p1, p2 \in rows :
            /\ p2.tp = p1.tp
            /\ exActive[p1.ex]
            /\ exActive[p2.ex]
            /\ tpActive[p1.tp]
            /\ p1.ex < p2.ex
            /\ p1.ask = 0
            /\ p2.bid # NULL
            /\ p2.bid > p1.ask
            /\ p1.ts > t - MatchWindow
            /\ p2.ts > t - MatchWindow
            /\ p1.id \in {q.id : q \in sub1}
            /\ p2.id \in {q.id : q \in sub2}

\* The handler of GET /api/arbitrage/opportunities?minProfit=q
GetOpportunities(q) ==
    /\ UNCHANGED <<connVars, storeVars, svcVars, detected, latest>>
    /\ ~DividesByZero(prices, now)
    /\ minProfit' = ParseMinProfit(q)
    /\ \E res \in Opportunities(prices, now, ParseMinProfit(q)) :
          response' = [served |-> TRUE, status |-> JsonStatus(res),
                       count |-> Len(res), rows |-> res, timestamp |-> now]

\* pool.query rejects: the catch of the handler answers 500 with an error
\* body, which has no count and no opportunities.
GetOpportunitiesError(q) ==
    /\ UNCHANGED <<connVars, storeVars, svcVars, detected, latest>>
    /\ minProfit' = ParseMinProfit(q)
    /\ response' = [served |-> TRUE, status |-> 500, count |-> NULL,
                    rows |-> <<>>, timestamp |-> now]

NextMatch == \E q \in MinProfitParams : GetOpportunities(q)

SpecMatch == InitMatch /\ [][NextMatch]_vars

\* The same reads, taken again as the stored quotes age.
NextExpiry ==
    \/ \E q \in MinProfitParams : GetOpportunities(q)
    \/ \E d \in TickSteps : Tick(d)

SpecExpiry == InitMatch /\ [][NextExpiry]_vars

\* The reads with the failure of the query among their outcomes.
NextRead ==
    \/ \E q \in MinProfitParams : GetOpportunities(q)
    \/ \E q \in MinProfitParams : GetOpportunitiesError(q)

SpecRead == InitMatch /\ [][NextRead]_vars

\* The handler of GET /api/prices/latest.
GetLatestPrices ==
    /\ UNCHANGED <<connVars, storeVars, svcVars, minProfit, response, detected>>
    /\ \E res \in LatestPrices(prices, now) :
          latest' = [served |-> TRUE, rows |-> res]

\* Tables of QuoteTables whose quotes have just been written.
NewQuoteTables == {T \in QuoteTables : \A r \in T : r.ts = ReadTime}

\* is_active as an administrator may have set it: any exchanges switched
\* off, and BTC_USD on or off.
InitActive ==
    /\ ConnIdle
    /\ ApiIdle
    /\ SvcIdle
    /\ now = ReadTime
    /\ ticks = 0
    /\ uniqueIdx = TRUE
    /\ exActive \in [Exchanges -> BOOLEAN]
    /\ tpActive \in {[p \in TradingPairs |-> TRUE],
                     [p \in TradingPairs |-> p # 3]}
    /\ prices \in NewQuoteTables
    /\ nextId = 4
    /\ calls = EmptyBag
    /\ lastExecuted = [k \in Keys |-> NoWrite]
    /\ lastCompleted = [k \in Keys |-> NoWrite]
    /\ overlapped = [k \in Keys |-> FALSE]
    /\ batch = NoBatch

NextActive ==
    \/ \E q \in MinProfitParams : GetOpportunities(q)
    \/ GetLatestPrices

SpecActive == InitActive /\ [][NextActive]_vars

\* The query raises division_by_zero: the catch of the handler answers 500.
GetOpportunitiesDivisionByZero(q) ==
    /\ DividesByZero(prices, now)
    /\ GetOpportunitiesError(q)

\* What the ticker handlers of Coinbase parse out of BTC-USD messages: an
\* ordinary quote and quotes whose best_ask is "0", unparseable or
\* "0.000000001"; and Kraken's quote of XBT/USD.
AskInputs == {[price |-> 100, bid |-> 99, ask |-> 101],
              [price |-> 100, bid |-> 99, ask |-> 0],
              [price |-> 100, bid |-> 99, ask |-> NaN],
              [price |-> 100, bid |-> 99, ask |-> Tiny]}

BidInputs == {[price |-> 105, bid |-> 105, ask |-> 106]}

\* Coinbase and Kraken write BTC_USD quotes and the opportunities are read.
NextQuote ==
    \/ \E k \in AskInputs : InsertPrice(2, 3, k)
    \/ \E k \in BidInputs : InsertPrice(3, 3, k)
    \/ \E c \in BagToSet(calls) : DbExecute(c)
    \/ \E c \in BagToSet(calls) : InsertReturn(c)
    \/ \E d \in TickSteps : Tick(d)
    \/ GetOpportunities(NaN)
    \/ GetOpportunitiesDivisionByZero(NaN)

InitQuote ==
    /\ ConnIdle
    /\ ApiIdle
    /\ SvcIdle
    /\ StoreEmpty
    /\ uniqueIdx = TRUE

SpecQuote == InitQuote /\ [][NextQuote]_vars

-----------------------------------------------------------------------------
(* Database.cleanOldPrices *)

\* INTERVAL '24 hours', in seconds.
Retention == 86400

\* A DELETE that also removes the rows of age exactly 24 hours.
PurgedInclusive(rows, t) == {r \in rows : ~(r.ts <= t - Retention)}

\* The rows left by DELETE FROM prices WHERE timestamp < NOW() - INTERVAL
\* '24 hours' run at time t.
Purged(rows, t) == {r \in rows : ~(r.ts < t - Retention)}

CleanOldPricesStep ==
    /\ prices' = Purged(prices, now)
    /\ UNCHANGED <<batch, now, ticks, uniqueIdx, exActive, tpActive, nextId, calls,
                   lastExecuted, lastCompleted, overlapped>>

\* db.cleanOldPrices() runs its statement and logs the count of deleted rows.
CleanOldPrices ==
    /\ UNCHANGED <<connVars, apiVars>>
    /\ CleanOldPricesStep
    /\ cleaned' = Cardinality(prices \ Purged(prices, now))
    /\ UNCHANGED <<refEx, refTp, pc, exitCause, exchangeId, linked, lookups,
                   msgs, trace, cleanupInterval, purging, stopping>>

\* The time of the first purge looked at, and the ages of the stored quotes
\* at that time: new, a minute old, and around 24 hours.
PurgeTime == 100000
PurgeAges == {0, 60, Retention - 1, Retention, Retention + 1}

\* At most one BTC_USD row per exchange, as in QuoteTables, of the ages of
\* PurgeAges.
PurgeTables ==
    LET opts == {o \in QuoteOptions : o.ask \in {990, 1012}}
        choice == [Exchanges -> {<<>>} \cup {<<o, a>> : o \in opts, a \in PurgeAges}]
    IN {{[id |-> e, ex |-> e, tp |-> 3, price |-> f[e][1].ask,
          bid |-> f[e][1].bid, ask |-> f[e][1].ask, ts |-> PurgeTime - f[e][2]]
            : e \in {x \in Exchanges : f[x] # <<>>}} : f \in choice}

InitPurge ==
    /\ ConnIdle
    /\ ApiIdle
    /\ SvcIdle
    /\ now = PurgeTime
    /\ ticks = 0
    /\ uniqueIdx = TRUE
    /\ exActive = [e \in Exchanges |-> TRUE]
    /\ tpActive = [p \in TradingPairs |-> TRUE]
    /\ prices \in PurgeTables
    /\ nextId = 4
    /\ calls = EmptyBag
    /\ lastExecuted = [k \in Keys |-> NoWrite]
    /\ lastCompleted = [k \in Keys |-> NoWrite]
    /\ overlapped = [k \in Keys |-> FALSE]
    /\ batch = NoBatch

NextPurge ==
    \/ CleanOldPrices
    \/ \E d \in {1, 30} : Tick(d)

SpecPurge == InitPurge /\ [][NextPurge]_vars

-----------------------------------------------------------------------------
(* detect-arbitrage-opportunities, the Drasi continuous query (README.md) *)

\* COLLECT(...) for one trading pair: its prices rows on active exchanges.
Collected(tp) == {r \in prices : r.tp = tp /\ exActive[r.ex]}

\* reduce(best = null, x IN prices | CASE WHEN best IS NULL OR
\* x.ask < best.ask THEN x ELSE best END): a row of the lowest ask, whichever
\* the collection order puts first; a row with a null ask stays best when it
\* comes first, as a comparison with null is not true.
BestBuy(S) ==
    {r \in S : r.ask = NULL}
    \cup {r \in S : r.ask # NULL /\ \A q \in S : q.ask # NULL => r.ask <= q.ask}

\* The same reduce on x.bid > best.bid.
BestSell(S) ==
    {r \in S : r.bid = NULL}
    \cup {r \in S : r.bid # NULL /\ \A q \in S : q.bid # NULL => r.bid >= q.bid}

\* WHERE best_buy.exchange <> best_sell.exchange AND profit > 0.1
Reported(b, s) ==
    /\ b.ex # s.ex
    /\ b.ask # NULL
    /\ s.bid # NULL
    /\ ProfitAbove(b, s, DefaultMinProfit)

\* The possible results of the query over the table: one (best_buy,
\* best_sell) per trading pair, returned when the WHERE clause holds.
DetectResults ==
    LET quoted == {tp \in DOMAIN tpActive : Collected(tp) # {}}
        picks == {f \in [quoted -> prices \X prices] :
                     \A tp \in quoted : /\ f[tp][1] \in BestBuy(Collected(tp))
                                        /\ f[tp][2] \in BestSell(Collected(tp))}
    IN {{OpportunityRow(f[tp][1], f[tp][2]) :
            tp \in {x \in quoted : Reported(f[x][1], f[x][2])}} : f \in picks}

\* The continuous query is evaluated over the current table.
DetectArbitrage ==
    /\ UNCHANGED <<connVars, storeVars, svcVars, minProfit, response, latest>>
    /\ \E res \in DetectResults : detected' = [run |-> TRUE, rows |-> res]

NextDetect == DetectArbitrage

SpecDetect == InitMatch /\ [][NextDetect]_vars

-----------------------------------------------------------------------------
(* The opportunities read over a table of many trading pairs *)

\* Trading pairs 1..n are listed in trading_pairs, n up to MaxPairs; every
\* exchange quotes each of them.
MaxPairs == 18

PairCounts == (MaxPairs - 3)..MaxPairs

\* "plain": the profits of all combinations differ.  "tie": pairs 1 and 2
\* carry the same quotes.  "dup": the table has no unique index and holds a
\* second Binance row of pair 1 with the same timestamp.
TablePatterns == {"plain", "tie", "dup"}

\* The quote of exchange e for pair tp: Binance is cheapest, Coinbase and
\* Kraken bid above it, the more the higher the pair's id.
BookQuote(e, tp, pat) ==
    LET x == IF pat = "tie" /\ tp = 2 THEN 1 ELSE tp
    IN CASE e = 1 -> [ask |-> 990, bid |-> 980]
         [] e = 2 -> [ask |-> 995, bid |-> 1010 + 2 * x]
         [] e = 3 -> [ask |-> 1200, bid |-> 1050 + 3 * x]

BookTable(n, pat) ==
    {[id |-> 3 * (tp - 1) + e, ex |-> e, tp |-> tp, price |-> BookQuote(e, tp, pat).ask,
      bid |-> BookQuote(e, tp, pat).bid, ask |-> BookQuote(e, tp, pat).ask,
      ts |-> ReadTime] : e \in Exchanges, tp \in 1..n}
    \cup (IF pat = "dup"
          THEN {[id |-> 3 * n + 1, ex |-> 1, tp |-> 1, price |-> 985, bid |-> 980,
                 ask |-> 985, ts |-> ReadTime]}
          ELSE {})

BookParams == {NaN, -5, -10, 50}

InitBook ==
    /\ ConnIdle
    /\ ApiIdle
    /\ SvcIdle
    /\ now = ReadTime
    /\ ticks = 0
    /\ exActive = [e \in Exchanges |-> TRUE]
    /\ nextId = 3 * MaxPairs + 2
    /\ calls = EmptyBag
    /\ lastExecuted = [k \in Keys |-> NoWrite]
    /\ lastCompleted = [k \in Keys |-> NoWrite]
    /\ overlapped = [k \in Keys |-> FALSE]
    /\ batch = NoBatch
    /\ \E n \in PairCounts, pat \in TablePatterns :
          /\ tpActive = [tp \in 1..n |-> TRUE]
          /\ prices = BookTable(n, pat)
          /\ uniqueIdx = (pat # "dup")

NextBook == \E q \in BookParams : GetOpportunities(q)

SpecBook == InitBook /\ [][NextBook]_vars

-----------------------------------------------------------------------------
(* Connector *)

Kinds == {"binance", "coinbase", "kraken"}

SockIds == 1..MaxSockets
TimerIds == 1..MaxTimers

\* A slot of sock that holds no WebSocket object.  after is history: the
\* delay of the timer whose callback created the socket, 0 for the call of
\* connect() by start().
FreeSock == [rs |-> "FREE", errEv |-> FALSE, closeEv |-> FALSE,
             aborted |-> FALSE, subscribed |-> FALSE, after |-> 0]

FreeTimer == [st |-> "free", delay |-> 0]

Min(a, b) == IF a < b THEN a ELSE b

\* new WebSocket(url): the object takes the lowest unused slot.
NewSockId(sk) == CHOOSE s \in SockIds :
                    /\ sk[s].rs = "FREE"
                    /\ \A u \in SockIds : sk[u].rs = "FREE" => s <= u

NewTimerId(tm) == CHOOSE t \in TimerIds :
                    /\ tm[t].st = "free"
                    /\ \A u \in TimerIds : tm[u].st = "free" => t <= u

\* A closed socket with no event left to emit and no reference from this.ws
\* is garbage: its slot is free again.
Collect(sk, w) == [s \in SockIds |->
                     IF sk[s].rs = "CLOSED" /\ ~sk[s].closeEv /\ s # w
                     THEN FreeSock ELSE sk[s]]

\* clearTimeout(handle): cancels the timer if it has not run yet.
ClearTimeout(tm, h) == IF h # 0 /\ tm[h].st # "free"
                       THEN [tm EXCEPT ![h] = FreeTimer] ELSE tm

ReconnectDelay == 5000

\* A scheduleReconnect() that keeps a handle it already holds.
ScheduleReconnectOnce(tm, h) ==
    IF h # 0 THEN <<tm, h>>
    ELSE LET t == NewTimerId(tm)
         IN <<[tm EXCEPT ![t] = [st |-> "pending", delay |-> ReconnectDelay]], t>>

\* scheduleReconnect(): clear the timer the field names, then set a new one.
\* Yields <<timers, reconnectTimeout>>.
ScheduleReconnect(tm, h) ==
    LET cleared == IF h # 0 THEN ClearTimeout(tm, h) ELSE tm
        t == NewTimerId(cleared)
    IN <<[cleared EXCEPT ![t] = [st |-> "pending", delay |-> ReconnectDelay]], t>>

\* A disconnect() that drops the handle without cancelling the timer.
CancelReconnectForgotten(tm, h) == tm

\* disconnect(), first statement: if (this.reconnectTimeout) clearTimeout(..).
CancelReconnect(tm, h) == IF h # 0 THEN ClearTimeout(tm, h) ELSE tm

\* ws.close() as the ws library performs it on a socket record.
WsClose(r) ==
    CASE r.rs = "CONNECTING" ->
            [r EXCEPT !.rs = "CLOSING", !.errEv = TRUE, !.closeEv = TRUE,
                      !.aborted = TRUE]
      [] r.rs = "OPEN" -> [r EXCEPT !.rs = "CLOSING", !.closeEv = TRUE]
      [] OTHER -> r

ConnState == IF ws # 0 /\ sock[ws].rs = "OPEN" THEN "Subscribed"
             ELSE IF ws # 0 /\ sock[ws].rs = "CONNECTING" THEN "Connecting"
             ELSE "Disconnected"

TimerLive(t) == timers[t].st \in {"pending", "due"}

InitConn ==
    /\ kind \in Kinds
    /\ ws = 0
    /\ sock = [s \in SockIds |-> FreeSock]
    /\ reconnectTimeout = 0
    /\ timers = [t \in TimerIds |-> FreeTimer]
    /\ pingInterval = FALSE
    /\ pings = 0
    /\ started = FALSE
    /\ stopped = FALSE
    /\ stoppedTimer = "none"
    /\ stoppedInFlight = FALSE
    /\ lastEvent = "init"
    /\ attempts = 0
    /\ StoreEmpty
    /\ uniqueIdx = TRUE
    /\ ApiIdle
    /\ SvcIdle

\* connect(): this.ws = new WebSocket(url); the handlers are attached to it.
\* d is the delay the caller waited, 0 when start() calls.
DoConnect(d) ==
    /\ \E s \in SockIds : sock[s].rs = "FREE"
    /\ LET s == NewSockId(sock)
       IN /\ ws' = s
          /\ sock' = Collect([sock EXCEPT ![s] = [FreeSock EXCEPT !.rs = "CONNECTING",
                                                                 !.after = d]], s)
    /\ attempts' = Min(attempts + 1, AttemptsCap)
    /\ lastEvent' = "connect"

\* PricePollerService.start calls connect() once on each connector.
Connect ==
    /\ UNCHANGED <<storeVars, apiVars, svcVars>>
    /\ ~started
    /\ ~stopped
    /\ started' = TRUE
    /\ DoConnect(0)
    /\ UNCHANGED <<kind, reconnectTimeout, timers, pingInterval, pings,
                   stopped, stoppedTimer, stoppedInFlight>>

\* A subscribe() that sends nothing.
SubscribeSkipped(sk, w) == sk

\* subscribe() of Coinbase and Kraken: return unless this.ws is OPEN, else
\* send the subscribe message naming this.productIds / this.pairs on this.ws.
Subscribe(sk, w) ==
    IF w # 0 /\ sk[w].rs = "OPEN" THEN [sk EXCEPT ![w].subscribed = TRUE] ELSE sk

\* 'open' on socket s: subscribe() (Coinbase, Kraken) or startPingInterval()
\* (Binance, whose streams are named in the URL).  subscribe() tests this.ws,
\* not the socket that emitted.
OnOpen(s) ==
    /\ UNCHANGED <<storeVars, apiVars, svcVars>>
    /\ sock[s].rs = "CONNECTING"
    /\ LET opened == [sock EXCEPT ![s].rs = "OPEN"]
       IN IF kind = "binance"
          THEN /\ sock' = opened
               /\ pingInterval' = TRUE
               /\ pings' = pings + 1
          ELSE /\ sock' = Subscribe(opened, ws)
               /\ UNCHANGED <<pingInterval, pings>>
    /\ lastEvent' = "open"
    /\ UNCHANGED <<kind, ws, reconnectTimeout, timers, started, stopped,
                   stoppedTimer, stoppedInFlight, attempts>>

\* The 'close' handler: stopPingInterval() (Binance) and scheduleReconnect().
CloseHandler ==
    /\ LET sr == ScheduleReconnect(timers, reconnectTimeout)
       IN /\ timers' = sr[1]
          /\ reconnectTimeout' = sr[2]
    /\ IF kind = "binance" /\ pingInterval
       THEN /\ pingInterval' = FALSE
            /\ pings' = pings - 1
       ELSE UNCHANGED <<pingInterval, pings>>
    /\ lastEvent' = "close"

\* The handshake of socket s fails: the library emits 'error' and then
\* 'close' in the same tick.  The 'error' handler only logs.
HandshakeFail(s) ==
    /\ UNCHANGED <<storeVars, apiVars, svcVars>>
    /\ sock[s].rs = "CONNECTING"
    /\ sock' = Collect([sock EXCEPT ![s].rs = "CLOSED"], ws)
    /\ CloseHandler
    /\ UNCHANGED <<kind, ws, started, stopped, stoppedTimer, stoppedInFlight,
                   attempts>>

\* An error on the open socket s: the 'error' handler logs and returns; the
\* socket is closing and its 'close' event is still to come.
OnError(s) ==
    /\ UNCHANGED <<storeVars, apiVars, svcVars>>
    /\ sock[s].rs = "OPEN"
    /\ sock' = [sock EXCEPT ![s].rs = "CLOSING", ![s].closeEv = TRUE]
    /\ lastEvent' = "error"
    /\ UNCHANGED <<kind, ws, reconnectTimeout, timers, pingInterval, pings,
                   started, stopped, stoppedTimer, stoppedInFlight, attempts>>

\* The peer or the network ends the open socket s; no handler runs yet.
TransportDrop(s) ==
    /\ UNCHANGED <<storeVars, apiVars, svcVars>>
    /\ sock[s].rs = "OPEN"
    /\ sock' = [sock EXCEPT ![s].rs = "CLOSING", ![s].closeEv = TRUE]
    /\ UNCHANGED <<kind, ws, reconnectTimeout, timers, pingInterval, pings,
                   started, stopped, stoppedTimer, stoppedInFlight, lastEvent,
                   attempts>>

\* The 'close' event of socket s is delivered (after an 'error' event when
\* the handshake was aborted by close()).
OnClose(s) ==
    /\ UNCHANGED <<storeVars, apiVars, svcVars>>
    /\ sock[s].closeEv
    /\ sock' = Collect([sock EXCEPT ![s].rs = "CLOSED", ![s].closeEv = FALSE,
                                    ![s].errEv = FALSE], ws)
    /\ CloseHandler
    /\ UNCHANGED <<kind, ws, started, stopped, stoppedTimer, stoppedInFlight,
                   attempts>>

\* The delay of timer t has elapsed; its callback is queued.
TimerExpire(t) ==
    /\ UNCHANGED <<storeVars, apiVars, svcVars>>
    /\ timers[t].st = "pending"
    /\ timers' = [timers EXCEPT ![t].st = "due"]
    /\ UNCHANGED <<kind, ws, sock, reconnectTimeout, pingInterval, pings,
                   started, stopped, stoppedTimer, stoppedInFlight, lastEvent,
                   attempts>>

\* A timer set with setInterval: it is armed again when its callback runs.
FiredRepeating(tm, t) == [tm EXCEPT ![t].st = "pending"]

\* A timer set with setTimeout is spent once its callback has run.
Fired(tm, t) == [tm EXCEPT ![t] = FreeTimer]

\* The callback of timer t runs: this.connect().  The field keeps the handle.
TimerFire(t) ==
    /\ UNCHANGED <<storeVars, apiVars, svcVars>>
    /\ timers[t].st = "due"
    /\ timers' = Fired(timers, t)
    /\ DoConnect(timers[t].delay)
    /\ UNCHANGED <<kind, reconnectTimeout, pingInterval, pings, started,
                   stopped, stoppedTimer, stoppedInFlight>>

\* disconnect()
DisconnectStep ==
    /\ timers' = CancelReconnect(timers, reconnectTimeout)
    /\ reconnectTimeout' = 0
    /\ IF kind = "binance" /\ pingInterval
       THEN /\ pingInterval' = FALSE
            /\ pings' = pings - 1
       ELSE UNCHANGED <<pingInterval, pings>>
    /\ IF ws # 0
       THEN sock' = Collect([sock EXCEPT ![ws] = WsClose(sock[ws])], 0)
       ELSE sock' = sock
    /\ ws' = 0
    /\ stopped' = TRUE
    /\ stoppedTimer' = IF reconnectTimeout # 0 /\ TimerLive(reconnectTimeout)
                       THEN timers[reconnectTimeout].st ELSE stoppedTimer
    /\ stoppedInFlight' = (stoppedInFlight \/
                             (ws # 0 /\ sock[ws].rs = "CONNECTING"))
    /\ lastEvent' = "disconnect"
    /\ UNCHANGED <<kind, started, attempts>>

\* disconnect() called on a connector by itself.
Disconnect ==
    /\ UNCHANGED <<storeVars, apiVars, svcVars>>
    /\ DisconnectStep

NextConn ==
    \/ Connect
    \/ \E s \in SockIds : OnOpen(s)
    \/ \E s \in SockIds : HandshakeFail(s)
    \/ \E s \in SockIds : OnError(s)
    \/ \E s \in SockIds : TransportDrop(s)
    \/ \E s \in SockIds : OnClose(s)
    \/ \E t \in TimerIds : TimerExpire(t)
    \/ \E t \in TimerIds : TimerFire(t)
    \/ Disconnect

SpecConn == InitConn /\ [][NextConn]_vars

\* The fairness the event loop gives: an armed timer expires and its
\* callback runs.
SpecConnFair ==
    /\ SpecConn
    /\ WF_vars(\E t \in TimerIds : TimerExpire(t))
    /\ WF_vars(\E t \in TimerIds : TimerFire(t))

-----------------------------------------------------------------------------
(* Message handlers of a connector *)

MaxMsgs == 2

ExchangeOf == [binance |-> 1, coinbase |-> 2, kraken |-> 3]

\* trading_pairs.symbol of the seed rows, by id, as character sequences.
TradingPairSymbol ==
    <<(<<"B", "T", "C", "_", "U", "S", "D", "T">>),
      (<<"E", "T", "H", "_", "U", "S", "D", "T">>),
      (<<"B", "T", "C", "_", "U", "S", "D">>),
      (<<"E", "T", "H", "_", "U", "S", "D">>)>>

\* The symbols the supervisor configures for each connector.
ConfiguredSymbols ==
    [binance  |-> {<<"B", "T", "C", "U", "S", "D", "T">>,
                   <<"E", "T", "H", "U", "S", "D", "T">>},
     coinbase |-> {<<"B", "T", "C", "-", "U", "S", "D">>,
                   <<"E", "T", "H", "-", "U", "S", "D">>},
     kraken   |-> {<<"X", "B", "T", "/", "U", "S", "D">>,
                   <<"E", "T", "H", "/", "U", "S", "D">>}]

\* The symbols ticker messages carry here: a configured one and one whose
\* pair is not listed in trading_pairs.
WireSymbols ==
    [binance  |-> {<<"B", "T", "C", "U", "S", "D", "T">>,
                   <<"B", "N", "B", "U", "S", "D", "T">>},
     coinbase |-> {<<"B", "T", "C", "-", "U", "S", "D">>,
                   <<"B", "T", "C", "-", "E", "U", "R">>},
     kraken   |-> {<<"X", "B", "T", "/", "U", "S", "D">>,
                   <<"X", "B", "T", "/", "E", "U", "R">>}]

\* String.prototype.replace(pat, rep) with a string pattern: the first
\* occurrence only.
ReplaceFirst(str, pat, rep) ==
    LET hits == {i \in 1..(Len(str) - Len(pat) + 1) :
                    SubSeq(str, i, i + Len(pat) - 1) = pat}
    IN IF hits = {} THEN str
       ELSE LET i == CHOOSE h \in hits : \A g \in hits : h <= g
            IN SubSeq(str, 1, i - 1) \o rep \o SubSeq(str, i + Len(pat), Len(str))

\* A rewrite that only replaces the separator.
ConvertSeparator(k, sym) ==
    CASE k = "binance" ->
            IF Len(sym) >= 4
            THEN SubSeq(sym, 1, Len(sym) - 4) \o <<"_">> \o SubSeq(sym, Len(sym) - 3, Len(sym))
            ELSE <<"_">> \o sym
      [] k = "coinbase" -> ReplaceFirst(sym, <<"-">>, <<"_">>)
      [] k = "kraken" -> ReplaceFirst(sym, <<"/">>, <<"_">>)

\* convertSymbolToTradingPair, convertProductIdToTradingPair and
\* convertPairToTradingPair.
ConvertSymbol(k, sym) ==
    CASE k = "binance" ->
            IF Len(sym) >= 4
            THEN SubSeq(sym, 1, Len(sym) - 4) \o <<"_">> \o SubSeq(sym, Len(sym) - 3, Len(sym))
            ELSE <<"_">> \o sym
      [] k = "coinbase" -> ReplaceFirst(sym, <<"-">>, <<"_">>)
      [] k = "kraken" ->
            ReplaceFirst(ReplaceFirst(sym, <<"X", "B", "T">>, <<"B", "T", "C">>),
                         <<"/">>, <<"_">>)

\* A getTradingPairId that answers an unknown symbol with the first pair.
GetTradingPairIdFirst(name, ref) ==
    IF \E id \in ref : TradingPairSymbol[id] = name
    THEN CHOOSE id \in ref : TradingPairSymbol[id] = name
    ELSE CHOOSE id \in ref : \A o \in ref : id <= o

\* getTradingPairId(symbol): the id of the row, or null (0).
GetTradingPairId(name, ref) ==
    IF \E id \in ref : TradingPairSymbol[id] = name
    THEN CHOOSE id \in ref : TradingPairSymbol[id] = name
    ELSE 0

\* getExchangeId(name): the id of the row, or null (0).
GetExchangeId(k, ref) == IF ExchangeOf[k] \in ref THEN ExchangeOf[k] ELSE 0

NoTick == [price |-> NULL, bid |-> NULL, ask |-> NULL]

\* The quote a ticker frame carries; what insertPrice makes of zero and NaN
\* fields is covered by TickInputs under SpecStore.
WireTicks == {[price |-> 100, bid |-> 99, ask |-> 101]}

\* The frames a socket delivers: text that is not JSON, JSON that is no
\* ticker, and tickers.
Messages(k) ==
    {[type |-> "malformed", sym |-> <<>>, tick |-> NoTick],
     [type |-> "other", sym |-> <<>>, tick |-> NoTick]}
    \cup {[type |-> "ticker", sym |-> y, tick |-> t] :
             y \in WireSymbols[k], t \in WireTicks}

\* A handler in which nothing catches what is thrown: the process ends by
\* the unhandledRejection handler.
Uncaught(p) == "exited"

\* A handleTickerUpdate whose error is thrown on and caught nowhere.
Rethrown(p) == "exited"

\* catch (error) of the 'message' handler: the error is logged.
MessageCatch(p) == p

\* catch (error) of handleTickerUpdate: the error is logged.
TickerCatch(p) == p

Thrown(p) == IF p = "exited" THEN "unhandledRejection" ELSE exitCause

\* The 'message' handler of the open socket s runs on frame m up to its
\* first await.
OnMessage(s, m) ==
    /\ UNCHANGED <<connVars, storeVars, apiVars>>
    /\ sock[s].rs = "OPEN"
    /\ msgs < MaxMsgs
    /\ msgs' = msgs + 1
    /\ CASE m.type = "malformed" ->
              /\ pc' = MessageCatch(pc)
              /\ exitCause' = Thrown(MessageCatch(pc))
              /\ trace' = Append(trace, "parseError")
              /\ UNCHANGED lookups
         [] m.type = "other" ->
              /\ trace' = Append(trace, "ignored")
              /\ UNCHANGED <<pc, exitCause, lookups>>
         [] m.type = "ticker" /\ exchangeId[kind] = 0 ->
              /\ trace' = Append(trace, "noExchange")
              /\ UNCHANGED <<pc, exitCause, lookups>>
         [] m.type = "ticker" /\ exchangeId[kind] # 0 ->
              /\ lookups' = lookups (+) SetToBag({[sym |-> m.sym,
                                                   name |-> ConvertSymbol(kind, m.sym),
                                                   tick |-> m.tick]})
              /\ UNCHANGED <<pc, exitCause, trace>>
    /\ UNCHANGED <<lifeVars, refEx, refTp, exchangeId, linked>>

\* getTradingPairId of the handler l resolves: an unknown pair is warned
\* about and dropped, otherwise insertPrice is called.
LookupReturn(l) ==
    /\ UNCHANGED <<connVars, apiVars>>
    /\ BagIn(l, lookups)
    /\ lookups' = lookups (-) SetToBag({l})
    /\ IF GetTradingPairId(l.name, refTp) = 0
       THEN /\ trace' = Append(trace, "unknownPair")
            /\ UNCHANGED storeVars
       ELSE /\ InsertPriceStep(exchangeId[kind], GetTradingPairId(l.name, refTp), l.tick)
            /\ UNCHANGED trace
    /\ UNCHANGED <<lifeVars, refEx, refTp, pc, exitCause, exchangeId, linked, msgs>>

\* getTradingPairId of the handler l rejects: handleTickerUpdate catches.
LookupError(l) ==
    /\ UNCHANGED <<connVars, storeVars, apiVars>>
    /\ BagIn(l, lookups)
    /\ lookups' = lookups (-) SetToBag({l})
    /\ pc' = TickerCatch(pc)
    /\ exitCause' = Thrown(TickerCatch(pc))
    /\ trace' = Append(trace, "lookupError")
    /\ UNCHANGED <<lifeVars, refEx, refTp, exchangeId, linked, msgs>>

\* The statement of call c runs; when the database rejects it insertPrice
\* throws into handleTickerUpdate.
WriteRuns(c) ==
    /\ UNCHANGED <<connVars, apiVars>>
    /\ DbExecuteStep(c)
    /\ IF uniqueIdx
       THEN UNCHANGED <<pc, exitCause, trace>>
       ELSE /\ pc' = TickerCatch(pc)
            /\ exitCause' = Thrown(TickerCatch(pc))
            /\ trace' = Append(trace, "writeError")
    /\ UNCHANGED <<lifeVars, refEx, refTp, exchangeId, linked, lookups, msgs>>

\* pool.query rejects for call c: insertPrice throws into handleTickerUpdate.
WriteFails(c) ==
    /\ UNCHANGED <<connVars, apiVars>>
    /\ DbErrorStep(c)
    /\ pc' = TickerCatch(pc)
    /\ exitCause' = Thrown(TickerCatch(pc))
    /\ trace' = Append(trace, "writeError")
    /\ UNCHANGED <<lifeVars, refEx, refTp, exchangeId, linked, lookups, msgs>>

\* insertPrice returns to handleTickerUpdate, which logs the quote.
WriteReturns(c) ==
    /\ UNCHANGED <<connVars, apiVars>>
    /\ InsertReturnStep(c)
    /\ trace' = Append(trace, "written")
    /\ UNCHANGED <<lifeVars, refEx, refTp, pc, exitCause, exchangeId, linked, lookups, msgs>>

\* One connector after start() has initialized it; BTC_USD may be missing
\* from trading_pairs.
InitIngest ==
    /\ kind \in Kinds
    /\ ws = 0
    /\ sock = [s \in SockIds |-> FreeSock]
    /\ reconnectTimeout = 0
    /\ timers = [t \in TimerIds |-> FreeTimer]
    /\ pingInterval = FALSE
    /\ pings = 0
    /\ started = FALSE
    /\ stopped = FALSE
    /\ stoppedTimer = "none"
    /\ stoppedInFlight = FALSE
    /\ lastEvent = "init"
    /\ attempts = 0
    /\ StoreEmpty
    /\ uniqueIdx \in BOOLEAN
    /\ ApiIdle
    /\ refEx = Exchanges
    /\ refTp \in {TradingPairs, TradingPairs \ {3}}
    /\ pc = "running"
    /\ exitCause = "none"
    /\ exchangeId = [k \in Kinds |-> IF k = kind THEN GetExchangeId(k, refEx) ELSE 0]
    /\ linked = [k \in Kinds |-> FALSE]
    /\ lookups = EmptyBag
    /\ msgs = 0
    /\ trace = <<>>
    /\ LifeIdle

NextIngest ==
    \/ Connect
    \/ \E s \in SockIds : OnOpen(s)
    \/ \E s \in SockIds : TransportDrop(s)
    \/ \E s \in SockIds : OnClose(s)
    \/ \E t \in TimerIds : TimerExpire(t)
    \/ \E t \in TimerIds : TimerFire(t)
    \/ \E s \in SockIds : \E m \in Messages(kind) : OnMessage(s, m)
    \/ \E l \in BagToSet(lookups) : LookupReturn(l)
    \/ \E l \in BagToSet(lookups) : LookupError(l)
    \/ \E c \in BagToSet(calls) : WriteRuns(c)
    \/ \E c \in BagToSet(calls) : WriteFails(c)
    \/ \E c \in BagToSet(calls) : WriteReturns(c)

SpecIngest == InitIngest /\ [][NextIngest]_vars

\* The tickers of the symbols the supervisor configures.
ConfiguredTickers(k) ==
    {[type |-> "ticker", sym |-> y, tick |-> t] :
        y \in ConfiguredSymbols[k], t \in WireTicks}

\* A connector that stays connected and receives tickers of its configured
\* symbols only.
NextSymbols ==
    \/ Connect
    \/ \E s \in SockIds : OnOpen(s)
    \/ \E s \in SockIds : \E m \in ConfiguredTickers(kind) : OnMessage(s, m)
    \/ \E l \in BagToSet(lookups) : LookupReturn(l)
    \/ \E c \in BagToSet(calls) : WriteRuns(c)
    \/ \E c \in BagToSet(calls) : WriteReturns(c)

SpecSymbols == InitIngest /\ [][NextSymbols]_vars

\* The BTC symbol the supervisor configures for each connector.
BtcSymbol == [binance  |-> <<"B", "T", "C", "U", "S", "D", "T">>,
              coinbase |-> <<"B", "T", "C", "-", "U", "S", "D">>,
              kraken   |-> <<"X", "B", "T", "/", "U", "S", "D">>]

\* The quote of the ticker received after n others: the price rises by one
\* with each message.
RisingTick(n) == [price |-> 100 + n, bid |-> 99 + n, ask |-> 101 + n]

\* A connected connector receiving tickers of one symbol, each with a new
\* quote, while the clock advances.
NextOrder ==
    \/ Connect
    \/ \E s \in SockIds : OnOpen(s)
    \/ \E s \in SockIds :
          OnMessage(s, [type |-> "ticker", sym |-> BtcSymbol[kind],
                        tick |-> RisingTick(msgs)])
    \/ \E l \in BagToSet(lookups) : LookupReturn(l)
    \/ \E c \in BagToSet(calls) : WriteRuns(c)
    \/ \E c \in BagToSet(calls) : WriteReturns(c)
    \/ Tick(1)

SpecOrder == InitIngest /\ [][NextOrder]_vars

-----------------------------------------------------------------------------
(* PricePollerService.start() *)

\* A start() that connects as soon as binance.initialize() has returned.
AfterInitEager == [binance |-> "running", coinbase |-> "init_kraken",
                   kraken |-> "running"]

\* The await of start() that belongs to each connector's initialize(), and
\* the order start() goes through them.
InitPc == [binance |-> "init_binance", coinbase |-> "init_coinbase",
           kraken |-> "init_kraken"]

AfterInit == [binance |-> "init_coinbase", coinbase |-> "init_kraken",
              kraken |-> "running"]

\* initialize() of connector k returns without throwing: the exchange row
\* exists and, for Binance only, so does the pair of every configured symbol.
InitializeOk(k, rex, rtp) ==
    /\ GetExchangeId(k, rex) # 0
    /\ k = "binance" =>
          \A sym \in ConfiguredSymbols[k] :
              GetTradingPairId(ConvertSymbol(k, sym), rtp) # 0

\* The tables as schema.sql seeds them, or with rows missing.
InitSvc ==
    /\ ConnIdle
    /\ ApiIdle
    /\ StoreEmpty
    /\ uniqueIdx = TRUE
    /\ refEx \in SUBSET Exchanges
    /\ refTp \in SUBSET TradingPairs
    /\ pc = "boot"
    /\ exitCause = "none"
    /\ exchangeId = [k \in Kinds |-> 0]
    /\ linked = [k \in Kinds |-> FALSE]
    /\ lookups = EmptyBag
    /\ msgs = 0
    /\ trace = <<>>
    /\ LifeIdle

\* start() up to its first await: setupHealthCheck(), db.query('SELECT NOW()').
Start ==
    /\ UNCHANGED <<connVars, storeVars, apiVars>>
    /\ pc = "boot"
    /\ pc' = "dbcheck"
    /\ UNCHANGED <<lifeVars, refEx, refTp, exitCause, exchangeId, linked, lookups, msgs, trace>>

\* The database check resolves: binance.initialize() is called.
DbCheckReturn ==
    /\ UNCHANGED <<connVars, storeVars, apiVars>>
    /\ pc = "dbcheck"
    /\ pc' = "init_binance"
    /\ UNCHANGED <<lifeVars, refEx, refTp, exitCause, exchangeId, linked, lookups, msgs, trace>>

\* The database check rejects: catch, process.exit(1).
DbCheckFail ==
    /\ UNCHANGED <<connVars, storeVars, apiVars>>
    /\ pc = "dbcheck"
    /\ pc' = "exited"
    /\ exitCause' = "db"
    /\ UNCHANGED <<lifeVars, refEx, refTp, exchangeId, linked, lookups, msgs, trace>>

\* The lookups of k.initialize() resolve.  A throw lands in the catch of
\* start(): process.exit(1).  After the last initialize() start() calls
\* connect() on the three connectors and sets the cleanup interval.
InitializeReturn(k) ==
    /\ UNCHANGED <<storeVars, apiVars>>
    /\ pc = InitPc[k]
    /\ exchangeId' = [exchangeId EXCEPT ![k] = GetExchangeId(k, refEx)]
    /\ IF InitializeOk(k, refEx, refTp)
       THEN /\ pc' = AfterInit[k]
            /\ UNCHANGED exitCause
            /\ IF AfterInit[k] = "running"
               THEN /\ linked' = [j \in Kinds |-> TRUE]
                    /\ started' = TRUE
                    /\ DoConnect(0)
                    /\ cleanupInterval' = "live"
                    /\ UNCHANGED <<kind, reconnectTimeout, timers,
                                   pingInterval, pings, stopped, stoppedTimer,
                                   stoppedInFlight>>
               ELSE UNCHANGED <<connVars, linked, cleanupInterval>>
       ELSE /\ pc' = "exited"
            /\ exitCause' = k
            /\ UNCHANGED <<connVars, linked, cleanupInterval>>
    /\ UNCHANGED <<purging, cleaned, stopping, refEx, refTp, lookups, msgs, trace>>

\* A lookup of k.initialize() rejects: catch of start(), process.exit(1).
InitializeError(k) ==
    /\ UNCHANGED <<connVars, storeVars, apiVars>>
    /\ pc = InitPc[k]
    /\ pc' = "exited"
    /\ exitCause' = k
    /\ UNCHANGED <<lifeVars, refEx, refTp, exchangeId, linked, lookups, msgs, trace>>

NextSvc ==
    \/ Start
    \/ DbCheckReturn
    \/ DbCheckFail
    \/ \E k \in Kinds : InitializeReturn(k)
    \/ \E k \in Kinds : InitializeError(k)

SpecSvc == InitSvc /\ [][NextSvc]_vars

-----------------------------------------------------------------------------
(* PricePollerService: stop(), the signal handlers and the cleanup interval *)

\* The status the process exits with: process.exit(0) at the end of stop(),
\* process.exit(1) in the catch of start() and in the unhandledRejection
\* handler.
ExitStatus == IF exitCause = "stop" THEN 0 ELSE 1

\* this.binance, this.coinbase and this.kraken hold the connector objects
\* from the constructor on; nothing assigns them again.
ConnectorField == "object"

\* GET /health, the connectors entry of a connector: this.kraken ?
\* 'connected' : 'disconnected' tests the field, and an object is truthy.
HealthConnector == IF ConnectorField # "null" THEN "connected" ELSE "disconnected"

\* SIGINT or SIGTERM is handled: stop() up to its await.  disconnect() on the
\* three connectors, clearInterval if the field is set, healthCheckServer
\* .close(), db.close() is called.  The handlers are registered once start()
\* has reached its first await; one signal is looked at.
Stop ==
    /\ UNCHANGED <<storeVars, apiVars>>
    /\ pc \notin {"boot", "exited"}
    /\ ~stopping
    /\ DisconnectStep
    /\ cleanupInterval' = IF cleanupInterval = "live" THEN "cleared"
                          ELSE cleanupInterval
    /\ stopping' = TRUE
    /\ UNCHANGED <<refEx, refTp, pc, exitCause, exchangeId, linked, lookups,
                   msgs, trace, purging, cleaned>>

\* pool.end() resolves: stop() logs and calls process.exit(0).  Whether a
\* query awaited elsewhere resolves before this is left open.
DbCloseReturn ==
    /\ UNCHANGED <<connVars, storeVars, apiVars>>
    /\ stopping
    /\ pc # "exited"
    /\ pc' = "exited"
    /\ exitCause' = "stop"
    /\ UNCHANGED <<lifeVars, refEx, refTp, exchangeId, linked, lookups, msgs,
                   trace>>

\* The cleanup interval fires: the callback logs and calls
\* db.cleanOldPrices(); one run at a time is looked at.
PurgeFire ==
    /\ UNCHANGED <<connVars, storeVars, apiVars>>
    /\ cleanupInterval = "live"
    /\ ~purging
    /\ purging' = TRUE
    /\ UNCHANGED <<refEx, refTp, pc, exitCause, exchangeId, linked, lookups,
                   msgs, trace, cleanupInterval, cleaned, stopping>>

\* The DELETE of the callback's cleanOldPrices() runs and the call returns.
PurgeReturn ==
    /\ UNCHANGED <<connVars, apiVars>>
    /\ purging
    /\ CleanOldPricesStep
    /\ cleaned' = Cardinality(prices \ Purged(prices, now))
    /\ purging' = FALSE
    /\ UNCHANGED <<refEx, refTp, pc, exitCause, exchangeId, linked, lookups,
                   msgs, trace, cleanupInterval, stopping>>

\* The query of cleanOldPrices() rejects: the callback has no catch, the
\* unhandledRejection handler calls process.exit(1).
PurgeFail ==
    /\ UNCHANGED <<connVars, storeVars, apiVars>>
    /\ purging
    /\ purging' = FALSE
    /\ pc' = "exited"
    /\ exitCause' = "unhandledRejection"
    /\ trace' = Append(trace, "purgeError")
    /\ UNCHANGED <<refEx, refTp, exchangeId, linked, lookups, msgs,
                   cleanupInterval, cleaned, stopping>>

\* The reference tables as seeded, without the Kraken row, or without
\* ETH_USDT.
InitLife ==
    /\ kind \in Kinds
    /\ ws = 0
    /\ sock = [s \in SockIds |-> FreeSock]
    /\ reconnectTimeout = 0
    /\ timers = [t \in TimerIds |-> FreeTimer]
    /\ pingInterval = FALSE
    /\ pings = 0
    /\ started = FALSE
    /\ stopped = FALSE
    /\ stoppedTimer = "none"
    /\ stoppedInFlight = FALSE
    /\ lastEvent = "init"
    /\ attempts = 0
    /\ StoreEmpty
    /\ uniqueIdx = TRUE
    /\ ApiIdle
    /\ refEx \in {Exchanges, Exchanges \ {3}}
    /\ refTp \in {TradingPairs, TradingPairs \ {2}}
    /\ pc = "boot"
    /\ exitCause = "none"
    /\ exchangeId = [k \in Kinds |-> 0]
    /\ linked = [k \in Kinds |-> FALSE]
    /\ lookups = EmptyBag
    /\ msgs = 0
    /\ trace = <<>>
    /\ LifeIdle

\* The process from start() to its exit; nothing runs once it has exited.
NextLife ==
    /\ pc # "exited"
    /\ \/ Start
       \/ DbCheckReturn
       \/ DbCheckFail
       \/ \E k \in Kinds : InitializeReturn(k)
       \/ \E k \in Kinds : InitializeError(k)
       \/ Stop
       \/ DbCloseReturn
       \/ PurgeFire
       \/ PurgeReturn
       \/ PurgeFail
       \/ \E s \in SockIds : OnOpen(s)
       \/ \E s \in SockIds : OnClose(s)
       \/ \E t \in TimerIds : TimerExpire(t)
       \/ \E t \in TimerIds : TimerFire(t)
       \/ \E s \in SockIds : \E m \in ConfiguredTickers(kind) : OnMessage(s, m)
       \/ \E l \in BagToSet(lookups) : LookupReturn(l)
       \/ \E c \in BagToSet(calls) : WriteRuns(c)
       \/ \E c \in BagToSet(calls) : WriteReturns(c)

SpecLife == InitLife /\ [][NextLife]_vars

-----------------------------------------------------------------------------
(* Properties of the connector *)

\* This step arms a timer that was not armed before it.
NewTimer == \E t \in TimerIds : timers[t].st # "pending" /\ timers'[t].st = "pending"

\* This step creates a WebSocket.
NewTransport == \E s \in SockIds : sock[s].rs = "FREE" /\ sock'[s].rs = "CONNECTING"

ReconnectScheduled == reconnectTimeout # 0 /\ TimerLive(reconnectTimeout)

\* C1: once disconnect() has been called, no step of the connector arms a
\* reconnect timer or opens a new transport, also when the close event of
\* the closed transport arrives later.
C1_NoTransitionAfterStop == [][stopped => ~NewTimer /\ ~NewTransport]_vars

\* C2: a connection attempt that disconnect() found in flight is abandoned:
\* its socket never opens, no subscribe message is sent on it, and no later
\* connection attempt is started.
C2_InFlightAbandoned ==
    /\ [](\A s \in SockIds : sock[s].aborted =>
                                sock[s].rs # "OPEN" /\ ~sock[s].subscribed)
    /\ [][stoppedInFlight => ~NewTransport]_vars

\* C3: a disconnect() that finds a reconnect timer armed, expired or not,
\* leaves no timer armed, and connect() is never invoked afterwards.
C3_TimerCancelled ==
    /\ [](lastEvent = "disconnect" => \A t \in TimerIds : ~TimerLive(t))
    /\ [][stoppedTimer # "none" => ~NewTransport]_vars

\* C3 witness: disconnect() has cleared a timer whose delay had elapsed.
C3_Witness == stoppedTimer = "due" /\ lastEvent = "disconnect"

C5_ErrorSchedulesReconnect ==
    lastEvent = "error" => ConnState = "Disconnected" /\ ReconnectScheduled

-----------------------------------------------------------------------------
(* Properties of the prices table and of the reads *)

Payload(r) == [id |-> r.id, price |-> r.price, bid |-> r.bid, ask |-> r.ask]

\* The possible results of the two freshness-bounded reads in this state:
\* the latest-prices read and the rows the opportunities query matches.
FreshReads ==
    LatestPrices(prices, now) \cup
    {MatchInput(prices, now, sub) :
        sub \in DistinctOnLatest(FreshRows(prices, now, MatchWindow))}

Current(r) == r \in Newest(prices, KeyOf(r))

InLatestRead(r) == \A R \in LatestPrices(prices, now) : r \in R

InMatchInput(r) ==
    \A sub \in DistinctOnLatest(FreshRows(prices, now, MatchWindow)) :
        r \in MatchInput(prices, now, sub)

C8_ShrinkOnlyRemoves ==
    \A R \in LatestPrices(prices, now) :
        \A sub \in DistinctOnLatest(FreshRows(prices, now, MatchWindow)) :
            R \subseteq MatchInput(prices, now, sub)

\* C8 witness: the 30 s read returns a quote and the 2 minute window holds
\* one more, of another key.
C8_Witness ==
    \E R \in LatestPrices(prices, now) :
        \E sub \in DistinctOnLatest(FreshRows(prices, now, MatchWindow)) :
            /\ R # {}
            /\ \E r \in MatchInput(prices, now, sub) :
                  r \notin R /\ \A q \in R : KeyOf(q) # KeyOf(r)

-----------------------------------------------------------------------------
(* Properties of the opportunities read *)

\* The snapshot the last read matched for trading pair tp.
Snapshot(tp) ==
    {r \in prices : r.tp = tp /\ exActive[r.ex] /\ tpActive[r.tp] /\ InMatchInput(r)}

\* Exchange row x alone has the cheapest ask and alone the highest bid of S.
BothExtrema(x, S) ==
    /\ x.ask # NULL
    /\ x.bid # NULL
    /\ \A y \in S \ {x} : y.ask = NULL \/ y.ask > x.ask
    /\ \A y \in S \ {x} : y.bid = NULL \/ y.bid < x.bid

Emitted(p1, p2) ==
    \E i \in 1..Len(response.rows) :
        /\ response.rows[i].trading_pair = p1.tp
        /\ response.rows[i].buy_exchange = p1.ex
        /\ response.rows[i].sell_exchange = p2.ex

\* C9: when one exchange alone holds both the cheapest ask and the highest
\* bid of a pair's snapshot, the read returns no opportunity for that pair.
C9_NoSelfArbitrage ==
    response.served =>
        \A tp \in TradingPairs :
            (\E x \in Snapshot(tp) : BothExtrema(x, Snapshot(tp))) =>
                \A i \in 1..Len(response.rows) : response.rows[i].trading_pair # tp

\* C10: a buy/sell combination of fresh quotes on distinct exchanges is
\* returned iff its profit_after_fees is strictly above the threshold the
\* query ran with.
C10_ThresholdExact ==
    response.served =>
        \A tp \in TradingPairs : \A p1, p2 \in Snapshot(tp) :
            (p1.ex # p2.ex /\ p1.ask # NULL /\ p2.bid # NULL) =>
                (Emitted(p1, p2) <=> ProfitAbove(p1, p2, minProfit))

\* The rows of the last response for trading pair tp.
RowsFor(tp) ==
    {i \in 1..Len(response.rows) : response.rows[i].trading_pair = tp}

MinAsk(S) == CHOOSE a \in {r.ask : r \in {x \in S : x.ask # NULL}} :
                \A r \in S : r.ask = NULL \/ a <= r.ask

MaxBid(S) == CHOOSE b \in {r.bid : r \in {x \in S : x.bid # NULL}} :
                \A r \in S : r.bid = NULL \/ b >= r.bid

\* C11: for a pair with fresh quotes of three or more exchanges the read
\* returns at most one opportunity, and it buys at the minimum ask and sells
\* at the maximum bid of all the pair's fresh quotes.
C11_ExtremaOnly ==
    response.served =>
        \A tp \in TradingPairs :
            Cardinality({r.ex : r \in Snapshot(tp)}) >= 3 =>
                /\ Cardinality(RowsFor(tp)) <= 1
                /\ \A i \in RowsFor(tp) :
                      /\ response.rows[i].buy_price = MinAsk(Snapshot(tp))
                      /\ response.rows[i].sell_price = MaxBid(Snapshot(tp))

\* C12: a combination of fresh quotes of two exchanges whose
\* profit_after_fees is above the threshold is returned with that buy and
\* that sell exchange, whichever of the two has the smaller id.
C12_EitherDirection ==
    response.served =>
        \A tp \in TradingPairs : \A p1, p2 \in Snapshot(tp) :
            (p1.ex # p2.ex /\ p1.ask # NULL /\ p2.bid # NULL
               /\ ProfitAbove(p1, p2, minProfit)) => Emitted(p1, p2)

\* The stored quote a returned row bought at (side "buy") or sold at.
QuoteOf(row, side) ==
    {p \in prices : /\ p.tp = row.trading_pair
                    /\ IF side = "buy"
                       THEN p.ex = row.buy_exchange /\ p.ask = row.buy_price
                       ELSE p.ex = row.sell_exchange /\ p.bid = row.sell_price}

\* The latest stored quote of exchange e for pair tp is older than the
\* window at time t.
LatestIsStale(e, tp, t) ==
    /\ Newest(prices, <<e, tp>>) # {}
    /\ \A r \in Newest(prices, <<e, tp>>) : t - r.ts > MatchWindow

Candidates(t, th, sub1, sub2) ==
    {OpportunityRow(pp[1], pp[2]) : pp \in
        {qq \in prices \X prices : Qualifies(qq[1], qq[2], t, th, sub1, sub2)}}

Subqueries(t) == DistinctOnLatest(FreshRows(prices, t, MatchWindow))

Returned == {response.rows[i] : i \in 1..Len(response.rows)}

\* C14: a second invocation on the same table, fees, threshold and clock
\* returns the list the first returned.
C14_Deterministic ==
    (response.served /\ response.timestamp = now) =>
        Opportunities(prices, now, minProfit) = {response.rows}

\* C15: the returned list is in non-increasing order of profit_after_fees,
\* holds min(50, number of qualifying rows) of the qualifying rows, and no
\* omitted row has a higher profit than a returned one.
C15_SortedThenCapped ==
    response.served =>
        /\ \A i \in 1..(Len(response.rows) - 1) :
              FracCmp(response.rows[i].num, response.rows[i].den,
                      response.rows[i + 1].num, response.rows[i + 1].den) >= 0
        /\ Cardinality(Returned) = Len(response.rows)
        /\ \E sub1, sub2 \in Subqueries(response.timestamp) :
              LET all == Candidates(response.timestamp, minProfit, sub1, sub2)
              IN /\ Returned \subseteq all
                 /\ Len(response.rows) = Min(ResultLimit, Cardinality(all))
                 /\ \A o \in all \ Returned : \A r \in Returned :
                       FracCmp(o.num, o.den, r.num, r.den) <= 0

\* C15 witness: more than 50 rows qualified and 50 were returned.
C15_Witness ==
    /\ response.served
    /\ Len(response.rows) = ResultLimit
    /\ \A sub1, sub2 \in Subqueries(response.timestamp) :
          Cardinality(Candidates(response.timestamp, minProfit, sub1, sub2)) > ResultLimit

-----------------------------------------------------------------------------
(* Properties of the message handlers *)

Listed(name) == \E id \in refTp : TradingPairSymbol[id] = name

\* Entry i of trace is outcome a and a later entry is outcome b.
Later(a, b) ==
    \E i, j \in 1..Len(trace) : i < j /\ trace[i] = a /\ trace[j] = b

\* C16: when the pair a ticker's symbol resolves to is not in trading_pairs
\* the handler ends there: no insertPrice call and no row, nothing thrown
\* out of the connector, socket and timers untouched.
C16_UnknownPairDropped ==
    [][\A l \in BagToSet(lookups) :
          (LookupReturn(l) /\ ~Listed(l.name)) =>
              /\ prices' = prices
              /\ calls' = calls
              /\ pc' = pc
              /\ UNCHANGED connVars
              /\ ConnState' = ConnState]_vars

\* C16 witness: a ticker of an unlisted pair was dropped and a later ticker
\* was written, the connector being connected throughout.
C16_Witness ==
    /\ Later("unknownPair", "written")
    /\ ConnState = "Subscribed"
    /\ prices # {}
    /\ pc = "running"

\* C17: a frame that is not JSON, or is JSON but no ticker, changes nothing
\* of the connector: same socket state, no write, no timer, process alive.
C17_BadMessageDropped ==
    [][\A s \in SockIds : \A m \in Messages(kind) :
          (OnMessage(s, m) /\ m.type \in {"malformed", "other"}) =>
              /\ UNCHANGED <<connVars, storeVars>>
              /\ lookups' = lookups
              /\ pc' = pc
              /\ ConnState' = ConnState]_vars

\* C17 witness: both kinds of frame were dropped by a connector that is
\* still subscribed with nothing written and no timer armed.
C17_Witness ==
    /\ \E i \in 1..Len(trace) : trace[i] = "parseError"
    /\ \E i \in 1..Len(trace) : trace[i] = "ignored"
    /\ ConnState = "Subscribed"
    /\ prices = {}
    /\ \A t \in TimerIds : ~TimerLive(t)
    /\ pc = "running"

\* C18: a write that fails ends its own handler only: the process lives,
\* the socket and the timers are untouched, and the other calls and lookups
\* in progress stay as they are.
C18_WriteFailureConfined ==
    [][\A c \in BagToSet(calls) :
          (WriteFails(c) \/ (WriteRuns(c) /\ ~uniqueIdx)) =>
              /\ pc' = pc
              /\ UNCHANGED connVars
              /\ ConnState' = ConnState
              /\ prices' = prices
              /\ lookups' = lookups
              /\ calls' = calls (-) SetToBag({c})]_vars

\* C18 witness: a write failed and the quote of a later message was written
\* by the same, still subscribed connector.
C18_Witness ==
    /\ Later("writeError", "written")
    /\ ConnState = "Subscribed"
    /\ pc = "running"

-----------------------------------------------------------------------------
(* Properties of start() *)

\* The reference data connector k needs: its exchange row and the pair of
\* each symbol it is configured with.
ReferenceComplete(k) ==
    /\ ExchangeOf[k] \in refEx
    /\ \A sym \in ConfiguredSymbols[k] : Listed(ConvertSymbol(k, sym))

\* C19: the process runs a connector only if its exchange and the pairs of
\* all its configured symbols are in the reference data; otherwise its
\* initialize() has failed and the process has stopped.
C19_FailFast ==
    \A k \in Kinds : linked[k] => ReferenceComplete(k)

\* C20: connector k never waits for another connector: while start() awaits
\* the initialize() of connector j alone, every other connector is already
\* connected, and the failure of j's initialize() does not keep a connector
\* with complete reference data from running.
C20_NoBlocking ==
    \A k \in Kinds :
        /\ (\E j \in Kinds \ {k} : pc = InitPc[j]) => linked[k]
        /\ (pc = "exited" /\ exitCause \in Kinds \ {k}) => ~ReferenceComplete(k)

-----------------------------------------------------------------------------
(* Properties of the reads when nothing qualifies *)

\* No two fresh quotes of one pair on two different exchanges, in either
\* direction, have a profit after fees above the threshold th at time t.
NoneClears(t, th) ==
    \A p1, p2 \in FreshRows(prices, t, MatchWindow) :
        (p1.tp = p2.tp /\ p1.ex # p2.ex /\ p1.ask # NULL /\ p2.bid # NULL
           /\ p1.ask > 0)
            => ~ProfitAbove(p1, p2, th)

\* C22: a read whose query was answered while no combination cleared the
\* threshold, the store holding fresh quotes or none, is a success (200)
\* with an empty list and count 0.
C22_EmptyNotError ==
    (response.served /\ response.status # 500
       /\ NoneClears(response.timestamp, minProfit)) =>
        /\ response.status = 200
        /\ response.rows = <<>>
        /\ response.count = 0

\* C22 witness: a successful empty answer although the table holds two
\* quotes that would clear the threshold, every stored quote being older
\* than the window.
C22_Witness ==
    /\ response.served
    /\ response.status = 200
    /\ response.count = 0
    /\ response.timestamp = now
    /\ FreshRows(prices, now, MatchWindow) = {}
    /\ \E p1, p2 \in prices :
          p1.ex # p2.ex /\ p1.tp = p2.tp /\ ProfitAbove(p1, p2, minProfit)

\* A successful empty answer over fresh quotes none of which clears.
C22_WitnessFresh ==
    /\ response.served
    /\ response.status = 200
    /\ response.count = 0
    /\ response.timestamp = now
    /\ Cardinality(FreshRows(prices, now, MatchWindow)) >= 2

-----------------------------------------------------------------------------
(* Properties of the extrema-based query *)

\* The combinations of two quotes of pair tp on two different exchanges
\* whose profit after fees is above the query's threshold.
Profitable(tp) ==
    {pp \in Collected(tp) \X Collected(tp) :
        /\ pp[1].ex # pp[2].ex
        /\ pp[1].ask # NULL
        /\ pp[2].bid # NULL
        /\ ProfitAbove(pp[1], pp[2], DefaultMinProfit)}

\* C24: whenever some combination of two different exchanges of a pair is
\* profitable, the query that keeps only the lowest ask and the highest bid
\* reports for that pair a combination on two different exchanges whose
\* profit after fees no combination exceeds.
C24_ExtremaLoseNothing ==
    detected.run =>
        \A tp \in DOMAIN tpActive :
            Profitable(tp) # {} =>
                \E row \in detected.rows :
                    /\ row.trading_pair = tp
                    /\ row.buy_exchange # row.sell_exchange
                    /\ \A pp \in Profitable(tp) :
                          FracCmp(row.num, row.den,
                                  ProfitNum(pp[1], pp[2]), ProfitDen(pp[1])) >= 0

-----------------------------------------------------------------------------
(* Properties of the symbol rewrite *)

\* The trading pair each configured exchange-native symbol stands for: its
\* base and quote currency as trading_pairs lists them (XBT is Kraken's
\* code of BTC).
PairOfSymbol ==
    [binance  |-> [s \in ConfiguredSymbols["binance"] |->
                     IF s[1] = "B" THEN 1 ELSE 2],
     coinbase |-> [s \in ConfiguredSymbols["coinbase"] |->
                     IF s[1] = "B" THEN 3 ELSE 4],
     kraken   |-> [s \in ConfiguredSymbols["kraken"] |->
                     IF s[1] = "X" THEN 3 ELSE 4]]

\* C28: the ticker handler rewrites every configured symbol to the symbol of
\* exactly one row of the seed trading_pairs, the pair of the symbol's base
\* and quote currency, and two different configured symbols of the connector
\* to two different pairs.
C28_SymbolRewrite ==
    \A l \in BagToSet(lookups) :
        l.sym \in ConfiguredSymbols[kind] =>
            /\ Cardinality({id \in TradingPairs : TradingPairSymbol[id] = l.name}) = 1
            /\ GetTradingPairId(l.name, TradingPairs) = PairOfSymbol[kind][l.sym]
            /\ \A m \in BagToSet(lookups) :
                  (m.sym \in ConfiguredSymbols[kind] /\ m.sym # l.sym) =>
                      GetTradingPairId(m.name, TradingPairs)
                        # GetTradingPairId(l.name, TradingPairs)

\* C28 witness: the Kraken connector has rewritten XBT/USD and ETH/USD and
\* both lookups are outstanding.
C28_Witness ==
    /\ kind = "kraken"
    /\ \E l, m \in BagToSet(lookups) :
          /\ l.sym = <<"X", "B", "T", "/", "U", "S", "D">>
          /\ m.sym = <<"E", "T", "H", "/", "U", "S", "D">>

-----------------------------------------------------------------------------
(* Properties of the reconnect delay *)

\* C27: when a connection attempt that a reconnect timer started fails and
\* the connector arms the timer of the next attempt, the new delay is longer
\* than the delay that preceded the failed attempt.
C27_ExponentialBackoff ==
    [][\A s \in SockIds :
          (/\ sock[s].rs = "CONNECTING"
           /\ sock[s].after > 0
           /\ sock'[s].rs \in {"CLOSED", "FREE"}
           /\ NewTimer)
              => timers'[reconnectTimeout'].delay > sock[s].after]_vars

-----------------------------------------------------------------------------
(* Properties of the key of the prices table *)

SameTriple(r, q) == r.ex = q.ex /\ r.tp = q.tp /\ r.ts = q.ts

\* C26: no two rows of prices have the same exchange, trading pair and
\* timestamp, and a demo injection that meets a row of its triple leaves
\* that row with the injected values.
C26_UniqueTriple ==
    /\ [](\A r, q \in prices : SameTriple(r, q) => r = q)
    /\ [][DemoInject =>
            \A d \in DemoRows :
                (\E r \in prices : r.ex = d.ex /\ r.tp = d.tp /\ r.ts = now) =>
                    \E q \in prices' : /\ q.ex = d.ex /\ q.tp = d.tp /\ q.ts = now
                                       /\ q.price = d.price /\ q.bid = d.bid
                                       /\ q.ask = d.ask]_vars

-----------------------------------------------------------------------------
(* Properties of the ask the query divides by *)

\* C25: every stored quote has an ask that is null or not zero, no read
\* divides by a zero ask, and no returned opportunity is computed from a
\* null ask or bid.
C25_NoZeroAsk ==
    /\ \A r \in prices : r.ask = NULL \/ r.ask # 0
    /\ ~DividesByZero(prices, now)
    /\ \A i \in 1..Len(response.rows) :
          response.rows[i].buy_price # NULL /\ response.rows[i].sell_price # NULL

-----------------------------------------------------------------------------
(* Properties of the purge *)

\* C23: a purge run at time t removes the rows older than 24 hours, keeps
\* every other row as it was, and the latest-prices read and the
\* opportunities read at t give the same results after it as before it.
C23_PurgeExact ==
    [][CleanOldPrices =>
          /\ prices' = {r \in prices : now - r.ts <= Retention}
          /\ LatestPrices(prices', now) = LatestPrices(prices, now)
          /\ \A q \in MinProfitParams :
                Opportunities(prices', now, ParseMinProfit(q))
                  = Opportunities(prices, now, ParseMinProfit(q))]_vars

\* C23 witness: a purge has removed a row and has left a row that was
\* exactly 24 hours old and a row fresh enough for the reads.
C23_Witness ==
    /\ cleaned = 1
    /\ Cardinality(prices) = 2
    /\ \E r \in prices : now - r.ts = Retention
    /\ \E r \in prices : now - r.ts < LatestWindow
    /\ \A r \in prices : now - r.ts <= Retention

\* C29: the Coinbase and Kraken connectors have sent their subscribe message
\* on every open transport, the first and each one a reconnect timer created,
\* so before any ticker of it is handled; the Binance connector never sends
\* one, its open handler starts the ping interval.
C29_SubscribeExceptBinance ==
    /\ kind # "binance" =>
          \A s \in SockIds : sock[s].rs = "OPEN" => sock[s].subscribed
    /\ kind = "binance" =>
          /\ \A s \in SockIds : ~sock[s].subscribed
          /\ (ws # 0 /\ sock[ws].rs = "OPEN") => pingInterval

\* C29 as stated: every connector has sent its subscribe message on every
\* open transport.
C29_SubscribeOnOpen ==
    \A s \in SockIds : sock[s].rs = "OPEN" => sock[s].subscribed

\* A Kraken transport that a reconnect timer created is open and subscribed
\* and a ticker received on it awaits its pair lookup.
C29_Witness ==
    /\ kind = "kraken"
    /\ ws # 0
    /\ sock[ws].rs = "OPEN"
    /\ sock[ws].after = ReconnectDelay
    /\ sock[ws].subscribed
    /\ msgs = 1
    /\ lookups # EmptyBag


-----------------------------------------------------------------------------
(* Properties of start() and stop() *)

\* C30: connect() has been called only when the initialize() of all three
\* connectors has succeeded, and when an initialize() has failed the process
\* has exited with a failure status, no transport was opened and no quote
\* was written.
C30_ConnectAfterAllInitialized ==
    /\ (started \/ \E k \in Kinds : linked[k] \/ \E s \in SockIds : sock[s].rs # "FREE")
          => /\ started
             /\ \A k \in Kinds : /\ InitializeOk(k, refEx, refTp)
                                 /\ exchangeId[k] # 0
                                 /\ exchangeId[k] = GetExchangeId(k, refEx)
    /\ (pc = "exited" /\ exitCause \in Kinds)
          => /\ ExitStatus = 1
             /\ ~started
             /\ \A s \in SockIds : sock[s].rs = "FREE"
             /\ prices = {}
             /\ calls = EmptyBag
             /\ lookups = EmptyBag
    /\ (\E k \in Kinds : pc \in {"dbcheck", InitPc[k]}) => ~started

\* Binance and Coinbase were initialized, kraken.initialize() found no
\* exchange row, and the process has exited.
C30_Witness ==
    /\ pc = "exited"
    /\ exitCause = "kraken"
    /\ exchangeId["binance"] # 0
    /\ exchangeId["coinbase"] # 0
    /\ exchangeId["kraken"] = 0
    /\ ~started

\* C21: when the process has exited by stop(), disconnect() was called on
\* the connector and the cleanup interval is not live; and no cleanup run
\* begins once stop() has been called.
C21_StopOrder ==
    /\ [](pc = "exited" /\ exitCause = "stop"
            => stopped /\ cleanupInterval # "live")
    /\ [][stopping /\ ~purging => ~purging']_vars

\* start() stands at one of its awaits: the database check or an initialize().
StartAwaits == {"dbcheck", "init_binance", "init_coinbase", "init_kraken"}

\* C36: while stop() has been called and start() still stands at one of its
\* awaits, no transport exists and no cleanup interval is set, and the step
\* that start() takes from there creates neither.
C36_StopDuringStart ==
    /\ []((stopping /\ pc \in StartAwaits)
            => /\ \A s \in SockIds : sock[s].rs = "FREE"
               /\ cleanupInterval = "null")
    /\ [][(stopping /\ pc \in StartAwaits)
            => (~NewTransport /\ cleanupInterval' = "null")]_vars

\* C35: a cleanup run whose DELETE failed leaves the process running, the
\* connector as it was and the cleanup interval live.
C35_PurgeFailureSurvived ==
    [][(Len(trace') > Len(trace) /\ trace'[Len(trace')] = "purgeError")
          => /\ pc' = pc
             /\ pc' # "exited"
             /\ cleanupInterval' = "live"
             /\ UNCHANGED connVars]_vars

-----------------------------------------------------------------------------
(* Properties of the request parameters and the active flags *)

\* C31: a read called with the numeric minProfit q, zero included, uses q
\* as its threshold, and a read called with none or a non-numeric one uses
\* the default.
C31_ThresholdAsSupplied ==
    [][\A q \in MinProfitParams :
          GetOpportunities(q)
             => minProfit' = IF q = NaN THEN DefaultMinProfit ELSE q]_vars

-----------------------------------------------------------------------------
(* Properties of batchInsertPrices *)

\* The table holds, at the transaction's time, the quote of entry e as the
\* statement stores it.
BatchRowOf(e) ==
    \E r \in prices : /\ r.ex = e.ex /\ r.tp = e.tp /\ r.ts = batch.at
                      /\ r.price = e.price
                      /\ r.bid = OrNull(e.bid)
                      /\ r.ask = OrNull(e.ask)

\* The last entry of the batch for the key of entry i.
LastOfKey(i) ==
    \A j \in (i + 1)..Len(batch.items) :
        <<batch.items[j].ex, batch.items[j].tp>>
           # <<batch.items[i].ex, batch.items[i].tp>>

\* C38: a batch call that has returned with an error has left the table as
\* it found it; one that has returned normally has persisted the quote of
\* every key of the batch; a failed statement always ends in an error; the
\* client is released as often as it was acquired, at most once, and not
\* before the call ends; and a call with an empty array has acquired no
\* client and sent no query.
C38_BatchAllOrNothing ==
    /\ (batch.pc = "done" /\ batch.result = "error") => prices = batch.base
    /\ (batch.pc = "done" /\ batch.result = "ok") =>
          \A i \in 1..Len(batch.items) : LastOfKey(i) => BatchRowOf(batch.items[i])
    /\ batch.failed => (batch.pc = "done" /\ batch.result = "error")
    /\ batch.pc = "done" =>
          (batch.released = batch.acquired /\ batch.result # "none")
    /\ batch.acquired <= 1
    /\ batch.pc \in {"begin", "insert", "commit"} =>
          (batch.acquired = 1 /\ batch.released = 0)
    /\ batch.pc \notin {"idle", "done"} => prices = batch.base
    /\ (batch.pc = "done" /\ batch.items = <<>>) =>
          (batch.acquired = 0 /\ batch.queries = 0 /\ prices = batch.base)

\* The second INSERT of a batch of two was rejected after the first had
\* been executed: the call has thrown, the client is released once and the
\* table is as before the call.
C38_Witness ==
    /\ batch.pc = "done"
    /\ batch.result = "error"
    /\ Len(batch.items) = 2
    /\ Len(batch.todo) = 1
    /\ batch.work # batch.base
    /\ batch.acquired = 1
    /\ batch.released = 1
    /\ prices = batch.base

-----------------------------------------------------------------------------
(* Properties of the health check *)

\* C32: while the health server answers, it reports the connector as
\* connected exactly when the connector's transport is open.
C32_HealthTruthful ==
    pc \notin {"boot", "exited"} =>
        (HealthConnector = "connected" <=> ConnState = "Subscribed")

-----------------------------------------------------------------------------
(* Properties of the connector's transports and timers *)

\* The transports that are connecting or open, and the armed timers.
LiveTransports == {s \in SockIds : sock[s].rs \in {"CONNECTING", "OPEN"}}

LiveTimers == {t \in TimerIds : TimerLive(t)}

\* C33: the connector has at most one transport connecting or open and at
\* most one armed reconnect timer, and no armed timer while its current
\* transport is connecting or open.
C33_OneTransportOneTimer ==
    /\ Cardinality(LiveTransports) <= 1
    /\ Cardinality(LiveTimers) <= 1
    /\ (ws # 0 /\ ws \in LiveTransports) => LiveTimers = {}

\* A reconnect: the transport that the timer's callback created is open,
\* no other transport is left and no timer is armed.
C33_Witness ==
    /\ ws # 0
    /\ sock[ws].rs = "OPEN"
    /\ sock[ws].after = ReconnectDelay
    /\ LiveTransports = {ws}
    /\ LiveTimers = {}
    /\ attempts >= 2

-----------------------------------------------------------------------------
(* Properties of the order of a connector's writes *)

IsWritten(x) == x = "written"

\* C34: once every ticker received has been handled and written, the newest
\* row of the key carries the quote of the ticker received last.
C34_LaterMessageWins ==
    (/\ msgs = MaxMsgs
     /\ lookups = EmptyBag
     /\ calls = EmptyBag
     /\ Len(SelectSeq(trace, IsWritten)) = MaxMsgs)
       => \A k \in Keys : \A r \in Newest(prices, k) :
             r.price = RisingTick(MaxMsgs - 1).price

-----------------------------------------------------------------------------
(* Properties of the symbol configuration *)

\* The trading pairs connector k writes quotes for: those its configured
\* symbols resolve to.
WrittenPairs(k) ==
    {GetTradingPairId(ConvertSymbol(k, sym), TradingPairs) :
        sym \in ConfiguredSymbols[k]} \ {0}

\* The pairs connector k has in common with another connector.
SharedPairs(k) ==
    {tp \in WrittenPairs(k) : \E j \in Kinds \ {k} : tp \in WrittenPairs(j)}

\* C39: a connector that writes quotes writes them only for its configured
\* pairs, and one of these another connector writes quotes for as well.
C39_EveryExchangeMatches ==
    (\E r \in prices : r.ex = ExchangeOf[kind]) =>
        /\ \A r \in prices : r.ex = ExchangeOf[kind] => r.tp \in WrittenPairs(kind)
        /\ SharedPairs(kind) # {}

====
